---- MODULE Spec2Model ----
(***************************************************************************)
(* Writher: the SQLite store (database.py), the function dispatcher and    *)
(* the Ollama response parser (assistant.py), the string table             *)
(* (locales.py) and the reminder/appointment scheduler (notifier.py).      *)
(*                                                                         *)
(* Strings are sequences of atoms: an atom is one character or one literal *)
(* chunk of a locale template.  Concatenation is \o, so a formatted        *)
(* message is the sequence of the template's chunks and the atoms of its   *)
(* arguments.                                                              *)
(***************************************************************************)
EXTENDS Integers, Sequences, FiniteSets, TLC

\* ---------------------------------------------------------------- bounds
\* Largest clock value.
MaxTime == 1
\* Rows each table may ever receive (caps the AUTOINCREMENT sequences).
MaxNotes == 2
MaxRems == 1
MaxAppts == 1
\* config.APPOINTMENT_REMIND_MINUTES.  The clock counts lead periods: one
\* tick of `now` is APPOINTMENT_REMIND_MINUTES minutes, the lead is one tick.
LeadTicks == 1
\* Threads calling the store besides the scheduler.
NumCallers == 2
\* Entries a list note may grow to.
MaxItems == 2
\* Calls the dispatcher serves in one run.
MaxCalls == 2
MaxEvents == 4
\* inject calls in one run.
MaxInject == 2

VARIABLES
    db,         \* the SQLite file: tables and their AUTOINCREMENT sequences
    now,        \* the wall clock, datetime.now(), in ticks
    lock,       \* database._lock: 0 when free, else the holding thread
    pc,         \* per caller thread: position inside a store function
    cur,        \* per caller thread: the store call in progress, or the
                \* last one if its statement raised
    hist,       \* history: ids save_note returned, in commit order; ids deleted
    spc,        \* scheduler thread: position in _loop / _check_*
    stopEv,     \* ReminderScheduler._stop (threading.Event)
    pending,    \* scheduler: rows fetched by the running phase, not yet handled
    item,       \* scheduler: the row between its toast and its mark
    marked,     \* history: <<table, id>> for which mark_*_notified has returned
    swept,      \* history: a fetch has passed over a marked row that was still due
    lang,       \* config.LANGUAGE
    dpc,        \* assistant worker: position inside / after _dispatch
    call,       \* dispatcher: the structured call being dispatched
    found,      \* dispatcher: the row find_list_by_title returned
    outcome,    \* what the last _dispatch call did (returned / raised)
    served,     \* _dispatch calls completed so far
    rpc,        \* resolver: position inside _call_ollama
    data,       \* resolver: resp.json(), the parsed response body
    resolved,   \* what the last _call_ollama call did (returned / raised)
    holdMode,   \* config.HOLD_TO_RECORD
    keyDown,    \* per hotkey: the key is physically down (a press event came)
    pressed,    \* HotkeyListener._dict_pressed / _assist_pressed
    recording,  \* HotkeyListener._dict_recording / _assist_recording
    fired,      \* history: the callbacks the listener has called, in order
    ipc,        \* injector: position inside inject
    itext,      \* injector: inject's parameter text
    original,   \* injector: what _get_clipboard_text returned
    clipboard,  \* the Win32 clipboard's CF_UNICODETEXT content
    recoveryFile, \* the lines of recovery_notes.txt
    keyboard,   \* history: the clipboard content at each Ctrl+V sent
    injected,   \* inject calls made so far
    timer,      \* per hotkey: main's timeout timer and its thread
    rec,        \* main.recorder: Recorder.recording and the session open
    queue,      \* _pipeline_queue / _assistant_queue
    worker      \* per queue: the worker thread's position, what it handled

lockVars == <<lock, pc, cur, hist>>
schedVars == <<spc, stopEv, pending, item, marked, swept>>
dispVars == <<lang, dpc, call, found, outcome, served>>
resVars == <<rpc, data, resolved>>
keyVars == <<holdMode, keyDown, pressed, recording, fired>>
injVars ==
    <<ipc, itext, original, clipboard, recoveryFile, keyboard, injected>>
mainVars == <<timer, rec, queue, worker>>
vars ==
    <<db, now, lockVars, schedVars, dispVars, resVars, keyVars, injVars,
      mainVars>>

\* ---------------------------------------------------------------- strings
Digits == <<"0", "1", "2", "3", "4", "5", "6", "7", "8", "9">>

\* str(n) for n >= 0
RECURSIVE IntStr(_)
IntStr(n) ==
    IF n < 10 THEN <<Digits[n + 1]>>
    ELSE IntStr(n \div 10) \o <<Digits[(n % 10) + 1]>>

\* Code point order of the atoms that occur in timestamps and titles.
Rank(a) ==
    CASE a = " " -> 0
      [] a \in {Digits[i] : i \in 1..10} ->
            (CHOOSE i \in 1..10 : Digits[i] = a)
      [] a = "S" -> 20
      [] a = "T" -> 21
      [] a = "s" -> 40
      [] OTHER -> 50

\* Python / SQLite (BINARY collation) string comparison a <= b.
RECURSIVE StrLeq(_, _)
StrLeq(a, b) ==
    IF a = <<>> THEN TRUE
    ELSE IF b = <<>> THEN FALSE
    ELSE IF Head(a) = Head(b) THEN StrLeq(Tail(a), Tail(b))
    ELSE Rank(Head(a)) < Rank(Head(b))

\* datetime.isoformat(timespec="seconds") of the clock value t.
Iso(t) == IntStr(t) \o <<"T">>

\* str.lower()
Lower(s) == [i \in 1..Len(s) |-> CASE s[i] = "S" -> "s"
                                    [] s[i] = "T" -> "t"
                                    [] s[i] = "L" -> "l"
                                    [] OTHER -> s[i]]

\* str.strip()
RECURSIVE LStrip(_)
LStrip(s) == IF s # <<>> /\ Head(s) = " " THEN LStrip(Tail(s)) ELSE s
RECURSIVE RStrip(_)
RStrip(s) ==
    IF s # <<>> /\ s[Len(s)] = " " THEN RStrip(SubSeq(s, 1, Len(s) - 1)) ELSE s
Strip(s) == RStrip(LStrip(s))

\* Python's `a in b` on strings.
Contains(b, a) ==
    \E i \in 1..(Len(b) - Len(a) + 1) : SubSeq(b, i, i + Len(a) - 1) = a

\* ---------------------------------------------------------------- values
\* Python values that reach the store or the dispatcher from a JSON document:
\* None, a str, a list of str.  Every value has the same three fields.
JNull == [t |-> "null", s |-> <<>>, l |-> <<>>]
JStr(x) == [t |-> "str", s |-> x, l |-> <<>>]
JList(x) == [t |-> "list", s |-> <<>>, l |-> x]

\* What a raised exception looks like to its catcher; str(exc) is <<name>>.
NoExc == ""

\* sqlite3 parameter binding into a NOT NULL TEXT column: a str is stored,
\* None violates NOT NULL, a list cannot be bound.
BindExc(v) ==
    CASE v.t = "str" -> NoExc
      [] v.t = "null" -> "IntegrityError"
      [] OTHER -> "InterfaceError"

FirstExc(es) ==
    IF \E i \in 1..Len(es) : es[i] # NoExc
    THEN es[CHOOSE i \in 1..Len(es) :
              es[i] # NoExc /\ \A j \in 1..(i - 1) : es[j] = NoExc]
    ELSE NoExc

\* json.dumps of a list of {"item", "checked"} dicts, and json.loads of it.
Esc(s) ==
    IF s = <<>> THEN <<>>
    ELSE LET F[i \in 0..Len(s)] ==
                 IF i = 0 THEN <<>>
                 ELSE F[i - 1] \o (IF s[i] \in {"\"", "\\"}
                                   THEN <<"\\", s[i]>> ELSE <<s[i]>>)
         IN  F[Len(s)]

DumpEntry(e) ==
    <<"{", "\"">> \o Esc(e.item) \o
    <<"\"", IF e.checked THEN "true" ELSE "false", "}">>

Dumps(es) ==
    LET F[i \in 0..Len(es)] ==
            IF i = 0 THEN <<"[">> ELSE F[i - 1] \o DumpEntry(es[i])
    IN  F[Len(es)] \o <<"]">>

RECURSIVE ParseStr(_, _)
ParseStr(s, acc) ==
    IF Head(s) = "\"" THEN [v |-> acc, r |-> Tail(s)]
    ELSE IF Head(s) = "\\" THEN ParseStr(Tail(Tail(s)), Append(acc, s[2]))
    ELSE ParseStr(Tail(s), Append(acc, Head(s)))

RECURSIVE ParseEntries(_, _)
ParseEntries(s, acc) ==
    IF Head(s) = "]" THEN acc
    ELSE LET p == ParseStr(Tail(Tail(s)), <<>>)
         IN  ParseEntries(Tail(Tail(p.r)),
                 Append(acc, [item |-> p.v, checked |-> Head(p.r) = "true"]))

Loads(s) == ParseEntries(Tail(s), <<>>)

\* ---------------------------------------------------------------- store
\* Result of one store function: the file afterwards, the value returned,
\* the exception raised (NoExc when it returned).
Res(d, v, e) == [db |-> d, val |-> v, exc |-> e]

EmptyDb ==
    [notes |-> {}, noteSeq |-> 0,
     appts |-> {}, apptSeq |-> 0,
     rems  |-> {}, remSeq  |-> 0,
     settings |-> {}]

Ids(rows) == {r.id : r \in rows}
Row(rows, id) == CHOOSE r \in rows : r.id = id
MaxOf(S) == IF S = {} THEN 0 ELSE CHOOSE x \in S : \A y \in S : y <= x

\* INTEGER PRIMARY KEY without AUTOINCREMENT: one more than the largest
\* rowid now in the table.
RowidNext(rows, seq) == MaxOf(Ids(rows)) + 1

\* INTEGER PRIMARY KEY AUTOINCREMENT: one more than the largest rowid the
\* table ever held (sqlite_sequence).
NextId(rows, seq) == seq + 1

save_note(d, content, category, title, t) ==
    LET e == FirstExc(<<BindExc(title), BindExc(content), BindExc(category)>>)
        nid == NextId(d.notes, d.noteSeq)
        row == [id |-> nid, title |-> title.s, content |-> content.s,
                category |-> category.s, note_type |-> "text",
                created_at |-> Iso(t), updated_at |-> Iso(t)]
    IN  IF e # NoExc THEN Res(d, 0, e)
        ELSE Res([d EXCEPT !.notes = @ \cup {row}, !.noteSeq = nid], nid, NoExc)

\* items: None is not iterable; a str iterates over its characters.
ItemsOf(items) ==
    CASE items.t = "list" -> items.l
      [] items.t = "str" -> [i \in 1..Len(items.s) |-> <<items.s[i]>>]
      [] OTHER -> <<>>

\* Mutant: the entries are built in reverse order.
UncheckedReversed(its) ==
    [i \in 1..Len(its) |-> [item |-> its[Len(its) + 1 - i], checked |-> FALSE]]

Unchecked(its) == [i \in 1..Len(its) |-> [item |-> its[i], checked |-> FALSE]]

save_list(d, title, items, category, t) ==
    LET e == FirstExc(<<IF items.t = "null" THEN "TypeError" ELSE NoExc,
                        BindExc(title), BindExc(category)>>)
        nid == NextId(d.notes, d.noteSeq)
        row == [id |-> nid, title |-> title.s,
                content |-> Dumps(Unchecked(ItemsOf(items))),
                category |-> category.s, note_type |-> "list",
                created_at |-> Iso(t), updated_at |-> Iso(t)]
    IN  IF e # NoExc THEN Res(d, 0, e)
        ELSE Res([d EXCEPT !.notes = @ \cup {row}, !.noteSeq = nid], nid, NoExc)

\* Mutant: the new entries are put in front of the existing ones.
add_to_list_front(d, note_id, items, t) ==
    IF note_id \notin Ids(d.notes) \/ Row(d.notes, note_id).note_type # "list"
    THEN Res(d, FALSE, NoExc)
    ELSE IF items.t = "null" THEN Res(d, FALSE, "TypeError")
    ELSE LET old == Row(d.notes, note_id)
             new == [old EXCEPT
                       !.content = Dumps(Unchecked(ItemsOf(items)) \o
                                         Loads(old.content)),
                       !.updated_at = Iso(t)]
         IN  Res([d EXCEPT !.notes = (@ \ {old}) \cup {new}], TRUE, NoExc)

\* Mutant: the note_type of the row is not looked at.
add_to_list_untyped(d, note_id, items, t) ==
    IF note_id \notin Ids(d.notes)
    THEN Res(d, FALSE, NoExc)
    ELSE IF items.t = "null" THEN Res(d, FALSE, "TypeError")
    ELSE LET old == Row(d.notes, note_id)
             new == [old EXCEPT
                       !.content = Dumps(Loads(old.content) \o
                                         Unchecked(ItemsOf(items))),
                       !.updated_at = Iso(t)]
         IN  Res([d EXCEPT !.notes = (@ \ {old}) \cup {new}], TRUE, NoExc)

add_to_list(d, note_id, items, t) ==
    IF note_id \notin Ids(d.notes) \/ Row(d.notes, note_id).note_type # "list"
    THEN Res(d, FALSE, NoExc)
    ELSE IF items.t = "null" THEN Res(d, FALSE, "TypeError")
    ELSE LET old == Row(d.notes, note_id)
             new == [old EXCEPT
                       !.content = Dumps(Loads(old.content) \o
                                         Unchecked(ItemsOf(items))),
                       !.updated_at = Iso(t)]
         IN  Res([d EXCEPT !.notes = (@ \ {old}) \cup {new}], TRUE, NoExc)

\* Mutant: the loop does not break, the last matching entry is toggled.
LastMatch(es, target) ==
    IF \E i \in 1..Len(es) : Lower(Strip(es[i].item)) = target
    THEN CHOOSE i \in 1..Len(es) :
            /\ Lower(Strip(es[i].item)) = target
            /\ \A j \in (i + 1)..Len(es) : Lower(Strip(es[j].item)) # target
    ELSE 0

\* Index of the first entry whose stripped, lower-cased item equals target.
FirstMatch(es, target) ==
    IF \E i \in 1..Len(es) : Lower(Strip(es[i].item)) = target
    THEN CHOOSE i \in 1..Len(es) :
            /\ Lower(Strip(es[i].item)) = target
            /\ \A j \in 1..(i - 1) : Lower(Strip(es[j].item)) # target
    ELSE 0

check_item(d, note_id, item_text, t) ==
    IF note_id \notin Ids(d.notes) \/ Row(d.notes, note_id).note_type # "list"
    THEN Res(d, FALSE, NoExc)
    ELSE LET old == Row(d.notes, note_id)
             es == Loads(old.content)
             k == FirstMatch(es, Lower(Strip(item_text)))
             new == [old EXCEPT
                       !.content = Dumps([es EXCEPT ![k].checked = ~@]),
                       !.updated_at = Iso(t)]
         IN  IF k = 0 THEN Res(d, FALSE, NoExc)
             ELSE Res([d EXCEPT !.notes = (@ \ {old}) \cup {new}], TRUE, NoExc)

delete_note(d, note_id) ==
    Res([d EXCEPT !.notes = {r \in @ : r.id # note_id}], 0, NoExc)

\* The orders in which a SELECT ... ORDER BY key ASC may return `rows`:
\* every arrangement sorted by the key (rows with equal keys in any order).
Arrangements(rows) ==
    {f \in [1..Cardinality(rows) -> rows] :
        \A i, j \in 1..Cardinality(rows) : i # j => f[i] # f[j]}

OrderedByDt(rows) ==
    {f \in Arrangements(rows) :
        \A i \in 1..(Len(f) - 1) : StrLeq(f[i].dt, f[i + 1].dt)}

OrderedByRemindAt(rows) ==
    {f \in Arrangements(rows) :
        \A i \in 1..(Len(f) - 1) : StrLeq(f[i].remind_at, f[i + 1].remind_at)}

create_appointment(d, title, dt, description, t) ==
    LET e == FirstExc(<<BindExc(title), BindExc(dt), BindExc(description)>>)
        aid == NextId(d.appts, d.apptSeq)
        row == [id |-> aid, title |-> title.s, dt |-> dt.s,
                description |-> description.s, notified |-> 0,
                created_at |-> Iso(t)]
    IN  IF e # NoExc THEN Res(d, 0, e)
        ELSE Res([d EXCEPT !.appts = @ \cup {row}, !.apptSeq = aid], aid, NoExc)

delete_appointment(d, aid) ==
    Res([d EXCEPT !.appts = {r \in @ : r.id # aid}], 0, NoExc)

\* Mutant: the notified flag is not part of the WHERE clause.
get_upcoming_appointments_all(d, within_minutes, t) ==
    OrderedByDt({r \in d.appts :
        /\ StrLeq(r.dt, Iso(t + within_minutes))
        /\ StrLeq(Iso(t), r.dt)})

\* The possible return values (one per admissible row order).
get_upcoming_appointments(d, within_minutes, t) ==
    OrderedByDt({r \in d.appts :
        /\ r.notified = 0
        /\ StrLeq(r.dt, Iso(t + within_minutes))
        /\ StrLeq(Iso(t), r.dt)})

get_past_unnotified_appointments(d, t) ==
    OrderedByDt({r \in d.appts : r.notified = 0 /\ StrLeq(r.dt, Iso(t))})

mark_appointment_notified(d, aid) ==
    Res([d EXCEPT !.appts =
            {IF r.id = aid THEN [r EXCEPT !.notified = 1] ELSE r : r \in @}],
        0, NoExc)

\* Mutant: the row is inserted with notified = 1.
set_reminder_notified(d, message, remind_at, t) ==
    LET e == FirstExc(<<BindExc(message), BindExc(remind_at)>>)
        rid == NextId(d.rems, d.remSeq)
        row == [id |-> rid, message |-> message.s, remind_at |-> remind_at.s,
                notified |-> 1, created_at |-> Iso(t)]
    IN  IF e # NoExc THEN Res(d, 0, e)
        ELSE Res([d EXCEPT !.rems = @ \cup {row}, !.remSeq = rid], rid, NoExc)

set_reminder(d, message, remind_at, t) ==
    LET e == FirstExc(<<BindExc(message), BindExc(remind_at)>>)
        rid == NextId(d.rems, d.remSeq)
        row == [id |-> rid, message |-> message.s, remind_at |-> remind_at.s,
                notified |-> 0, created_at |-> Iso(t)]
    IN  IF e # NoExc THEN Res(d, 0, e)
        ELSE Res([d EXCEPT !.rems = @ \cup {row}, !.remSeq = rid], rid, NoExc)

\* Mutant: the query without its notified=0 condition.
get_pending_reminders_any(d, t) ==
    OrderedByRemindAt({r \in d.rems : StrLeq(r.remind_at, Iso(t))})

\* Mutant: the query without its remind_at<=? condition.
get_pending_reminders_early(d, t) ==
    OrderedByRemindAt({r \in d.rems : r.notified = 0})

get_pending_reminders(d, t) ==
    OrderedByRemindAt({r \in d.rems :
        r.notified = 0 /\ StrLeq(r.remind_at, Iso(t))})

\* Mutant: the UPDATE is never committed.
mark_reminder_uncommitted(d, rid) == Res(d, 0, NoExc)

mark_reminder_notified(d, rid) ==
    Res([d EXCEPT !.rems =
            {IF r.id = rid THEN [r EXCEPT !.notified = 1] ELSE r : r \in @}],
        0, NoExc)

delete_reminder(d, rid) ==
    Res([d EXCEPT !.rems = {r \in @ : r.id # rid}], 0, NoExc)

save_setting(d, key, value) ==
    Res([d EXCEPT !.settings =
            {x \in @ : x.key # key} \cup {[key |-> key, value |-> value]}],
        0, NoExc)

\* ---------------------------------------------------------------- calls
\* The store functions called one at a time (each is atomic under _lock),
\* on a store file that outlives the process.

\* database.get_all_notes: the possible return values, ORDER BY updated_at
\* DESC (rows with equal updated_at in any order).
get_all_notes(d) ==
    {f \in Arrangements(d.notes) :
        \A i \in 1..(Len(f) - 1) : StrLeq(f[i + 1].updated_at, f[i].updated_at)}

\* Mutant: the migration rebuilds the appointments table, empty.
init_rebuild(d) ==
    IF \E r \in d.appts : "notified" \notin DOMAIN r
    THEN Res([d EXCEPT !.appts = {}], 0, NoExc)
    ELSE Res(d, 0, NoExc)

\* database.init on the store file as it is: CREATE TABLE IF NOT EXISTS
\* leaves an existing table alone, and ALTER TABLE ... ADD COLUMN notified
\* INTEGER NOT NULL DEFAULT 0 runs when the appointments table has no such
\* column (a row of such a table is a record without that field).
init(d) ==
    Res([d EXCEPT !.appts =
            {IF "notified" \in DOMAIN r THEN r
             ELSE [k \in DOMAIN r \cup {"notified"} |->
                     IF k = "notified" THEN 0 ELSE r[k]] : r \in @}],
        0, NoExc)

\* A store file written by a version whose appointments had no notified
\* column.
LegacyDb ==
    [EmptyDb EXCEPT
        !.notes = {[id |-> 1, title |-> <<>>, content |-> <<"c">>,
                    category |-> <<"general">>, note_type |-> "text",
                    created_at |-> Iso(0), updated_at |-> Iso(0)]},
        !.noteSeq = 1,
        !.appts = {[id |-> 1, title |-> <<"a">>, dt |-> Iso(1),
                    description |-> <<>>, created_at |-> Iso(0)]},
        !.apptSeq = 1,
        !.rems = {[id |-> 1, message |-> <<"m">>, remind_at |-> Iso(0),
                   notified |-> 1, created_at |-> Iso(0)]},
        !.remSeq = 1,
        !.settings = {[key |-> <<"language">>, value |-> <<"it">>]}]

\* main: db.init() at start-up (the process may be started again later).
StoreInit ==
    /\ db' = init(db).db
    /\ UNCHANGED <<now, lockVars, schedVars, dispVars, resVars, keyVars, injVars, mainVars>>

\* One call of an appointments function after init; the table has held at
\* most MaxAppts + 1 rows, so that two rows can share a window.
ApptOp ==
    /\ \A r \in db.appts : "notified" \in DOMAIN r
    /\ \E id \in 1..(MaxAppts + 1),
          dt \in {Iso(t) : t \in 0..(MaxTime + LeadTicks)} :
       \E d \in {create_appointment(db, JStr(<<"a">>), JStr(dt), JStr(<<>>),
                                    now).db,
                 mark_appointment_notified(db, id).db,
                 delete_appointment(db, id).db} :
          /\ d.apptSeq <= MaxAppts + 1
          /\ db' = d
    /\ UNCHANGED <<now, lockVars, schedVars, dispVars, resVars, keyVars, injVars, mainVars>>

\* One call of a notes function: titles that contain one another's
\* letters in either case, items that are equal once trimmed and
\* lower-cased, an item that json.dumps has to escape, and a text note
\* whose content reads as an empty JSON array.
NoteOp ==
    /\ \E id \in 1..MaxNotes :
       \E d \in {save_note(db, JStr(<<"[", "]">>), JStr(<<"general">>),
                           JStr(<<"S">>), now).db,
                 save_list(db, JStr(<<"S">>), JList(<< <<"S">>, <<" ", "s">> >>),
                           JStr(<<"general">>), now).db,
                 save_list(db, JStr(<<"s", "z">>), JList(<< <<" ", "s">> >>),
                           JStr(<<"general">>), now).db,
                 IF id \in Ids(db.notes)
                    /\ Row(db.notes, id).note_type = "list"
                    /\ Len(Loads(Row(db.notes, id).content)) >= MaxItems
                 THEN db
                 ELSE add_to_list(db, id,
                                  JList(<< <<" ", "s">>, <<"\"">> >>), now).db,
                 check_item(db, id, <<"s", " ">>, now).db} :
          /\ d.noteSeq <= MaxNotes
          /\ db' = d
    /\ UNCHANGED <<now, lockVars, schedVars, dispVars, resVars, keyVars, injVars, mainVars>>

\* ---------------------------------------------------------------- lock
\* One store function, step by step, on a caller thread:
\*     with _lock:  c = _conn();  c.execute(...); c.commit();  c.close()
StoreCall(op, id, v) == [op |-> op, id |-> id, v |-> v]
NoCall == StoreCall("none", 0, JNull)

\* What the statements between _conn() and c.close() do.
Statement(d, c, t) ==
    CASE c.op = "save_note" ->
            save_note(d, c.v, JStr(<<"general">>), JStr(<<>>), t)
      [] c.op = "save_list" ->
            save_list(d, JStr(<<"S">>), c.v, JStr(<<"general">>), t)
      [] c.op = "add_to_list" -> add_to_list(d, c.id, c.v, t)
      [] c.op = "check_item" -> check_item(d, c.id, c.v.s, t)
      [] OTHER -> delete_note(d, c.id)

\* The calls the caller threads make; None as content violates NOT NULL.
StoreCalls ==
    {StoreCall("save_note", 0, v) : v \in {JStr(<<"c">>), JNull}}
    \cup {StoreCall("save_list", 0, JList(<< <<"x">> >>))}
    \cup {StoreCall("add_to_list", i, JList(<< <<"y">> >>)) : i \in 1..MaxNotes}
    \cup {StoreCall("check_item", i, JStr(<<"X">>)) : i \in 1..MaxNotes}
    \cup {StoreCall("delete_note", i, JNull) : i \in 1..MaxNotes}

\* The call stays within the model's bounds.
InBounds(d, c) ==
    /\ c.op \in {"save_note", "save_list"} => d.noteSeq < MaxNotes
    /\ c.op = "add_to_list" =>
          \A r \in d.notes :
              r.id = c.id /\ r.note_type = "list"
                  => Len(Loads(r.content)) < MaxItems

\* Mutant: the function body runs without taking _lock.
AcquireUnlocked(t, c) ==
    /\ pc[t] = "idle"
    /\ InBounds(db, c)
    /\ lock' = t
    /\ pc' = [pc EXCEPT ![t] = "conn"]
    /\ cur' = [cur EXCEPT ![t] = c]
    /\ UNCHANGED <<db, now, hist, schedVars, dispVars, resVars, keyVars, injVars, mainVars>>

\* with _lock:
Acquire(t, c) ==
    /\ pc[t] = "idle"
    /\ lock = 0
    /\ InBounds(db, c)
    /\ lock' = t
    /\ pc' = [pc EXCEPT ![t] = "conn"]
    /\ cur' = [cur EXCEPT ![t] = c]
    /\ UNCHANGED <<db, now, hist, schedVars, dispVars, resVars, keyVars, injVars, mainVars>>

\* c = _conn()
Connect(t) ==
    /\ pc[t] = "conn"
    /\ pc' = [pc EXCEPT ![t] = "exec"]
    /\ UNCHANGED <<db, now, lock, cur, hist, schedVars, dispVars, resVars, keyVars, injVars, mainVars>>

\* What hist records of a committed statement.
Recorded(h, c, d, r) ==
    CASE c.op = "save_note" -> [h EXCEPT !.saved = Append(@, r.val)]
      [] c.op = "delete_note" ->
            [h EXCEPT !.deleted = @ \cup (Ids(d.notes) \cap {c.id})]
      [] OTHER -> h

\* c.execute(...); c.commit() -- or the statement raises, the with block is
\* left and the lock released with nothing committed.
Execute(t) ==
    /\ pc[t] = "exec"
    /\ LET r == Statement(db, cur[t], now)
       IN  IF r.exc # NoExc
           THEN /\ lock' = 0
                /\ pc' = [pc EXCEPT ![t] = "idle"]
                /\ UNCHANGED <<db, cur, hist>>
           ELSE /\ db' = r.db
                /\ hist' = Recorded(hist, cur[t], db, r)
                /\ pc' = [pc EXCEPT ![t] = "close"]
                /\ UNCHANGED <<lock, cur>>
    /\ UNCHANGED <<now, schedVars, dispVars, resVars, keyVars, injVars, mainVars>>

\* c.close(), end of the with block
Close(t) ==
    /\ pc[t] = "close"
    /\ lock' = 0
    /\ pc' = [pc EXCEPT ![t] = "idle"]
    /\ cur' = [cur EXCEPT ![t] = NoCall]
    /\ UNCHANGED <<db, now, hist, schedVars, dispVars, resVars, keyVars, injVars, mainVars>>

\* sqlite3 raises (file locked, disk full, ...) in _conn, execute, commit or
\* close: the with block is left by the exception.
Raise(t) ==
    /\ pc[t] \in {"conn", "exec", "close"}
    /\ lock' = 0
    /\ pc' = [pc EXCEPT ![t] = "idle"]
    /\ cur' = [cur EXCEPT ![t] = NoCall]
    /\ UNCHANGED <<db, now, hist, schedVars, dispVars, resVars, keyVars, injVars, mainVars>>

\* add_to_list / check_item / get_all_notes statement by statement: the
\* SELECT, then the UPDATE computed from the row the SELECT returned.
ListCalls ==
    {StoreCall("add_to_list", 1, JList(<< <<"s">>, <<"t">> >>)),
     StoreCall("add_to_list", 1, JList(<< <<"l">> >>)),
     StoreCall("check_item", 1, JStr(<<"S", " ">>)),
     StoreCall("get_all_notes", 0, JNull)}

\* row = c.execute("SELECT content, note_type FROM notes WHERE id=?")
\* .fetchone() and the test that follows it; for get_all_notes the
\* fetchall().  The rows read stay with the call.
ListSelect(t) ==
    /\ pc[t] = "exec"
    /\ IF cur[t].op = "get_all_notes"
       THEN /\ cur' = [cur EXCEPT ![t] = [op |-> @.op, id |-> @.id,
                                          v |-> @.v, rows |-> db.notes]]
            /\ pc' = [pc EXCEPT ![t] = "close"]
       ELSE IF \/ cur[t].id \notin Ids(db.notes)
               \/ Row(db.notes, cur[t].id).note_type # "list"
       THEN /\ pc' = [pc EXCEPT ![t] = "close"]
            /\ UNCHANGED cur
       ELSE /\ cur' = [cur EXCEPT ![t] =
                          [op |-> @.op, id |-> @.id, v |-> @.v,
                           rows |-> {Row(db.notes, @.id)}]]
            /\ pc' = [pc EXCEPT ![t] = "update"]
    /\ UNCHANGED <<db, now, lock, hist, schedVars, dispVars, resVars,
                   keyVars, injVars, mainVars>>

\* json.loads(row["content"]), the change, and
\* c.execute("UPDATE notes SET content=?, updated_at=? WHERE id=?");
\* c.commit() -- check_item writes only when it found the entry; or the
\* UPDATE raises and the with block is left.
ListUpdate(t) ==
    /\ pc[t] = "update"
    /\ LET c == cur[t]
           r == Statement([db EXCEPT !.notes = c.rows], c, now)
           w == Row(r.db.notes, c.id)
       IN  \/ /\ db' = IF r.val
                       THEN [db EXCEPT !.notes =
                               {IF x.id = c.id
                                THEN [x EXCEPT !.content = w.content,
                                               !.updated_at = w.updated_at]
                                ELSE x : x \in @}]
                       ELSE db
              /\ pc' = [pc EXCEPT ![t] = "close"]
              /\ UNCHANGED <<lock, cur>>
           \/ /\ lock' = 0
              /\ pc' = [pc EXCEPT ![t] = "idle"]
              /\ cur' = [cur EXCEPT ![t] = NoCall]
              /\ UNCHANGED db
    /\ UNCHANGED <<now, hist, schedVars, dispVars, resVars, keyVars, injVars, mainVars>>

\* ---------------------------------------------------------------- clock
Tick ==
    /\ now < MaxTime
    /\ now' = now + 1
    /\ UNCHANGED <<db, lockVars, schedVars, dispVars, resVars, keyVars, injVars, mainVars>>

\* ---------------------------------------------------------------- scheduler
\* notifier.py.  Each store function is one step here: it runs inside
\* `with _lock` (see the lock-level specification below).
NoItem == [id |-> 0]

\* Timestamps a caller hands to set_reminder / create_appointment: up to
\* the last clock value, and for appointments one lead period further.
RemindAts == {Iso(t) : t \in 0..MaxTime}
ApptDts == {Iso(t) : t \in 0..(MaxTime + LeadTicks)}

\* Other threads (the dispatcher, the notes window) between scheduler steps.
CallSetReminder ==
    /\ db.remSeq < MaxRems
    /\ \E at \in RemindAts :
          db' = set_reminder(db, JStr(<<"m">>), JStr(at), now).db
    /\ UNCHANGED <<now, lockVars, schedVars, dispVars, resVars, keyVars, injVars, mainVars>>

CallCreateAppointment ==
    /\ db.apptSeq < MaxAppts
    /\ \E dt \in ApptDts :
          db' = create_appointment(db, JStr(<<"a">>), JStr(dt), JStr(<<>>), now).db
    /\ UNCHANGED <<now, lockVars, schedVars, dispVars, resVars, keyVars, injVars, mainVars>>

CallDeleteReminder ==
    /\ \E rid \in Ids(db.rems) : db' = delete_reminder(db, rid).db
    /\ UNCHANGED <<now, lockVars, schedVars, dispVars, resVars, keyVars, injVars, mainVars>>

CallDeleteAppointment ==
    /\ \E aid \in Ids(db.appts) : db' = delete_appointment(db, aid).db
    /\ UNCHANGED <<now, lockVars, schedVars, dispVars, resVars, keyVars, injVars, mainVars>>

\* set_reminder / create_appointment once more, after every row of the
\* table has been deleted.
CallInsertAgain ==
    /\ \/ /\ db.rems = {} /\ db.remSeq \in 1..MaxRems
          /\ \E at \in RemindAts :
                db' = set_reminder(db, JStr(<<"m">>), JStr(at), now).db
       \/ /\ db.appts = {} /\ db.apptSeq \in 1..MaxAppts
          /\ \E dt \in ApptDts :
                db' = create_appointment(db, JStr(<<"a">>), JStr(dt),
                                         JStr(<<>>), now).db
    /\ UNCHANGED <<now, lockVars, schedVars, dispVars, resVars, keyVars, injVars, mainVars>>

\* ReminderScheduler.stop(), from main._quit
Stop ==
    /\ ~stopEv
    /\ stopEv' = TRUE
    /\ UNCHANGED <<db, now, lockVars, spc, pending, item, marked, swept, dispVars, resVars, keyVars, injVars, mainVars>>

\* while not self._stop.is_set():
SchedLoop ==
    /\ spc = "loop"
    /\ spc' = IF stopEv THEN "exited" ELSE "rem_fetch"
    /\ UNCHANGED <<db, now, lockVars, stopEv, pending, item, marked, swept, dispVars, resVars, keyVars, injVars, mainVars>>

\* pending = db.get_pending_reminders()
RemFetch ==
    /\ spc = "rem_fetch"
    /\ \E p \in get_pending_reminders(db, now) :
          /\ pending' = p
          /\ spc' = IF p = <<>> THEN "appt_fetch" ELSE "rem_toast"
    /\ swept' = (swept \/ \E x \in db.rems :
                    <<"rem", x.id>> \in marked /\ StrLeq(x.remind_at, Iso(now)))
    /\ UNCHANGED <<db, now, lockVars, stopEv, item, marked, dispVars, resVars, keyVars, injVars, mainVars>>

\* _send_toast(locales.get("reminder_toast_title"), rem["message"])
RemToast ==
    /\ spc = "rem_toast"
    /\ item' = Head(pending)
    /\ pending' = Tail(pending)
    /\ spc' = "rem_mark"
    /\ UNCHANGED <<db, now, lockVars, stopEv, marked, swept, dispVars, resVars, keyVars, injVars, mainVars>>

\* db.mark_reminder_notified(rem["id"])
RemMark ==
    /\ spc = "rem_mark"
    /\ db' = mark_reminder_notified(db, item.id).db
    /\ marked' = marked \cup {<<"rem", item.id>>}
    /\ item' = NoItem
    /\ spc' = IF pending = <<>> THEN "appt_fetch" ELSE "rem_toast"
    /\ UNCHANGED <<now, lockVars, stopEv, pending, swept, dispVars, resVars, keyVars, injVars, mainVars>>

\* Mutant: no except clause; the exception ends the thread.
RemPhaseEscapes ==
    /\ spc \in {"rem_fetch", "rem_toast", "rem_mark"}
    /\ spc' = "exited"
    /\ pending' = <<>>
    /\ item' = NoItem
    /\ UNCHANGED <<db, now, lockVars, stopEv, marked, swept, dispVars,
                   resVars, keyVars, injVars, mainVars>>

\* except Exception: the fetch, a toast or a mark raised; the phase ends.
RemPhaseRaises ==
    /\ spc \in {"rem_fetch", "rem_toast", "rem_mark"}
    /\ spc' = "appt_fetch"
    /\ pending' = <<>>
    /\ item' = NoItem
    /\ UNCHANGED <<db, now, lockVars, stopEv, marked, swept, dispVars, resVars, keyVars, injVars, mainVars>>

\* upcoming = db.get_upcoming_appointments(within_minutes=lead)
ApptFetch ==
    /\ spc = "appt_fetch"
    /\ \E p \in get_upcoming_appointments(db, LeadTicks, now) :
          /\ pending' = p
          /\ spc' = IF p = <<>> THEN "wait" ELSE "appt_toast"
    /\ swept' = (swept \/ \E x \in db.appts :
                    /\ <<"appt", x.id>> \in marked
                    /\ StrLeq(x.dt, Iso(now + LeadTicks))
                    /\ StrLeq(Iso(now), x.dt))
    /\ UNCHANGED <<db, now, lockVars, stopEv, item, marked, dispVars, resVars, keyVars, injVars, mainVars>>

\* _send_toast(locales.get("appointment_toast_title"), body)
ApptToast ==
    /\ spc = "appt_toast"
    /\ item' = Head(pending)
    /\ pending' = Tail(pending)
    /\ spc' = "appt_mark"
    /\ UNCHANGED <<db, now, lockVars, stopEv, marked, swept, dispVars, resVars, keyVars, injVars, mainVars>>

\* db.mark_appointment_notified(appt["id"])
ApptMark ==
    /\ spc = "appt_mark"
    /\ db' = mark_appointment_notified(db, item.id).db
    /\ marked' = marked \cup {<<"appt", item.id>>}
    /\ item' = NoItem
    /\ spc' = IF pending = <<>> THEN "wait" ELSE "appt_toast"
    /\ UNCHANGED <<now, lockVars, stopEv, pending, swept, dispVars, resVars, keyVars, injVars, mainVars>>

ApptPhaseRaises ==
    /\ spc \in {"appt_fetch", "appt_toast", "appt_mark"}
    /\ spc' = "wait"
    /\ pending' = <<>>
    /\ item' = NoItem
    /\ UNCHANGED <<db, now, lockVars, stopEv, marked, swept, dispVars, resVars, keyVars, injVars, mainVars>>

\* self._stop.wait(30): returns at the timeout or when stop() sets the event.
SchedWait ==
    /\ spc = "wait"
    /\ spc' = "loop"
    /\ UNCHANGED <<db, now, lockVars, stopEv, pending, item, marked, swept, dispVars, resVars, keyVars, injVars, mainVars>>

\* Mutant: time.sleep(30) in place of the wait on the event; only the
\* clock ends it.
WaitSleeps ==
    /\ spc = "wait"
    /\ FALSE
    /\ UNCHANGED <<db, now, lockVars, schedVars, dispVars, resVars, keyVars, injVars, mainVars>>

\* self._stop.wait(30) once the event is set: it returns at once, whatever
\* is left of the 30 s.
WaitInterrupted ==
    /\ spc = "wait"
    /\ stopEv
    /\ spc' = "loop"
    /\ UNCHANGED <<db, now, lockVars, stopEv, pending, item, marked, swept, dispVars, resVars, keyVars, injVars, mainVars>>

SchedStep ==
    \/ SchedLoop \/ RemFetch \/ RemToast \/ RemMark
    \/ ApptFetch \/ ApptToast \/ ApptMark \/ SchedWait

\* ------------------------------------------------------------------ main
\* main's module state that the callbacks, the timers and the workers share.
\* An audio item is written as the hotkey whose press opened the Recorder
\* session it was captured in (by) and the number of the callback that
\* enqueued it (at).  queue[k] is everything ever put on the queue, in
\* order; the worker has taken the first worker[k].n of it.
MAX_RECORD_SECONDS == 120
_STOP == [by |-> "_STOP", at |-> 0]

MainInit ==
    /\ timer = [k \in {"dictation", "assistant"} |->
                  [armed |-> FALSE, pc |-> "idle"]]
    /\ rec = [recording |-> FALSE, owner |-> "none"]
    /\ queue = [k \in {"dictation", "assistant"} |-> <<>>]
    /\ worker = [k \in {"dictation", "assistant"} |->
                   [pc |-> "get", n |-> 0, handled |-> <<>>]]

\* Recorder.start() with a microphone: nothing if a session is open.
Recorder_start(k) ==
    IF rec.recording THEN rec ELSE [recording |-> TRUE, owner |-> k]

\* Mutant: no timer is started.
_start_timeout_never(tm, k) == tm

\* _start_timeout(mode) on timer state tm
_start_timeout(tm, k) ==
    IF holdMode \/ MAX_RECORD_SECONDS <= 0 THEN tm
    ELSE [tm EXCEPT ![k].armed = TRUE]

\* _cancel_timeout(mode) on timer state tm: a timer whose function is
\* already running is not stopped by cancel().
_cancel_timeout(tm, k) == [tm EXCEPT ![k].armed = FALSE]

\* _on_hotkey_press / _on_assist_press (cb = "press") and _on_hotkey_release
\* / _on_assist_release (cb = "release") of hotkey k, called through
\* _safe_call with the timers as tm; long: the audio recorder.stop()
\* returned is not empty and duration >= _MIN_DURATION.
Fire(k, cb, tm, long) ==
    /\ fired' = Append(fired, <<k, cb>>)
    /\ IF cb = "press"
       THEN /\ rec' = Recorder_start(k)
            /\ timer' = _start_timeout(tm, k)
            /\ UNCHANGED queue
       ELSE /\ timer' = _cancel_timeout(tm, k)
            /\ rec' = [recording |-> FALSE, owner |-> "none"]
            /\ queue' = IF rec.recording /\ long
                        THEN [queue EXCEPT
                                ![k] = Append(@, [by |-> rec.owner,
                                                  at |-> Len(fired) + 1])]
                        ELSE queue

\* ---------------------------------------------------------------- hotkey
\* hotkey.HotkeyListener on the pynput listener thread, for the two hotkeys
\* (config.HOTKEY: dictation, config.ASSISTANT_HOTKEY: assistant; an event
\* of any other key changes nothing).  The keyboard repeats the press event
\* while a key is held.  main passes all four callbacks; _safe_call
\* swallows what a callback raises.

\* Mutant: hold mode without the _dict_pressed / _assist_pressed test.
HandlePressEveryEvent ==
    \E k \in {"dictation", "assistant"} :
        /\ Len(fired) < MaxEvents
        /\ holdMode
        /\ keyDown' = [keyDown EXCEPT ![k] = TRUE]
        /\ pressed' = [pressed EXCEPT ![k] = TRUE]
        /\ Fire(k, "press", timer, TRUE)
        /\ UNCHANGED <<db, now, lockVars, schedVars, dispVars, resVars,
                       injVars, holdMode, recording, worker>>

\* _handle_press(key)
HandlePress ==
    \E k \in {"dictation", "assistant"} : \E long \in BOOLEAN :
        /\ Len(fired) < MaxEvents
        /\ keyDown' = [keyDown EXCEPT ![k] = TRUE]
        /\ IF holdMode
           THEN IF ~pressed[k]
                THEN /\ pressed' = [pressed EXCEPT ![k] = TRUE]
                     /\ Fire(k, "press", timer, long)
                     /\ UNCHANGED recording
                ELSE UNCHANGED <<pressed, recording, fired, timer, rec, queue>>
           ELSE IF pressed[k]
                THEN UNCHANGED <<pressed, recording, fired, timer, rec, queue>>
                ELSE /\ pressed' = [pressed EXCEPT ![k] = TRUE]
                     /\ recording' = [recording EXCEPT ![k] = ~@]
                     /\ Fire(k, IF recording[k] THEN "release" ELSE "press",
                             timer, long)
        /\ UNCHANGED <<db, now, lockVars, schedVars, dispVars, resVars,
                       injVars, holdMode, worker>>

\* _handle_release(key); a release may arrive for a key whose press the
\* listener never saw.
HandleRelease ==
    \E k \in {"dictation", "assistant"} : \E long \in BOOLEAN :
        /\ Len(fired) < MaxEvents
        /\ keyDown' = [keyDown EXCEPT ![k] = FALSE]
        /\ IF holdMode
           THEN IF pressed[k]
                THEN /\ pressed' = [pressed EXCEPT ![k] = FALSE]
                     /\ Fire(k, "release", timer, long)
                ELSE UNCHANGED <<pressed, fired, timer, rec, queue>>
           ELSE /\ pressed' = [pressed EXCEPT ![k] = FALSE]
                /\ UNCHANGED <<fired, timer, rec, queue>>
        /\ UNCHANGED <<db, now, lockVars, schedVars, dispVars, resVars,
                       injVars, holdMode, recording, worker>>

\* The timer main._start_timeout armed runs out: on its own thread,
\* _timeout_dictation / _timeout_assistant call force_stop_dictation /
\* force_stop_assistant, which read `if self._dict_recording` /
\* `if self._assist_recording`.
TimerExpire ==
    \E k \in {"dictation", "assistant"} :
        /\ timer[k].armed
        /\ timer[k].pc = "idle"
        /\ timer' = [timer EXCEPT
                       ![k] = [armed |-> FALSE,
                               pc |-> IF recording[k] THEN "act" ELSE "idle"]]
        /\ UNCHANGED <<db, now, lockVars, schedVars, dispVars, resVars,
                       keyVars, injVars, rec, queue, worker>>

\* The body of that `if` in force_stop_dictation / force_stop_assistant, on
\* the timer thread; no lock is held between the test and the body.
ForceStop ==
    \E k \in {"dictation", "assistant"} : \E long \in BOOLEAN :
        /\ timer[k].pc = "act"
        /\ recording' = [recording EXCEPT ![k] = FALSE]
        /\ pressed' = [pressed EXCEPT ![k] = FALSE]
        /\ Fire(k, "release", [timer EXCEPT ![k].pc = "idle"], long)
        /\ UNCHANGED <<db, now, lockVars, schedVars, dispVars, resVars,
                       injVars, holdMode, keyDown, worker>>

\* SettingsWindow._set_mode(hold), from the settings window's two buttons
\* on the Tk thread.
SetMode ==
    \E hold \in BOOLEAN :
        /\ holdMode' = hold
        /\ db' = save_setting(db, <<"hold_to_record">>,
                              <<IF hold THEN "1" ELSE "0">>).db
        /\ UNCHANGED <<now, lockVars, schedVars, dispVars, resVars, keyDown,
                       pressed, recording, fired, injVars, mainVars>>

\* --------------------------------------------------------------- workers
\* main._dictation_worker / _assistant_worker, daemon threads, and
\* main._quit on the tray icon's thread.

\* item = queue.get(); if item is _STOP: break
WorkerGet ==
    \E k \in {"dictation", "assistant"} :
        /\ worker[k].pc = "get"
        /\ worker[k].n < Len(queue[k])
        /\ worker' = [worker EXCEPT
                        ![k].n = @ + 1,
                        ![k].pc = IF queue[k][worker[k].n + 1] = _STOP
                                  THEN "done" ELSE "work"]
        /\ UNCHANGED <<db, now, lockVars, schedVars, dispVars, resVars,
                       keyVars, injVars, timer, rec, queue>>

\* The try block of the loop for one item: transcribe and inject / process
\* and show; `except Exception` logs what was raised and the loop goes on.
WorkerHandle ==
    \E k \in {"dictation", "assistant"} : \E raised \in BOOLEAN :
        /\ worker[k].pc = "work"
        /\ worker' = [worker EXCEPT
                        ![k].pc = "get",
                        ![k].handled =
                            Append(@, [item |-> queue[k][worker[k].n],
                                       raised |-> raised])]
        /\ UNCHANGED <<db, now, lockVars, schedVars, dispVars, resVars,
                       keyVars, injVars, timer, rec, queue>>

\* _quit(), once: the timers cancelled, _STOP put on both queues, the
\* scheduler told to stop, the Recorder stopped, root.destroy scheduled.
Quit ==
    /\ ~stopEv
    /\ stopEv' = TRUE
    /\ timer' = _cancel_timeout(_cancel_timeout(timer, "dictation"),
                                "assistant")
    /\ queue' = [k \in {"dictation", "assistant"} |-> Append(queue[k], _STOP)]
    /\ rec' = [recording |-> FALSE, owner |-> "none"]
    /\ UNCHANGED <<db, now, lockVars, spc, pending, item, marked, swept,
                   dispVars, resVars, keyVars, injVars, worker>>

\* root.destroy ends root.mainloop(), the last statement of main(): the
\* main thread returns and the interpreter exits without waiting for the
\* daemon threads, wherever they are.
MainReturns ==
    /\ stopEv
    /\ \E k \in {"dictation", "assistant"} : worker[k].pc \in {"get", "work"}
    /\ worker' = [k \in {"dictation", "assistant"} |->
                    [worker[k] EXCEPT
                       !.pc = IF @ = "done" THEN "done" ELSE "killed"]]
    /\ UNCHANGED <<db, now, lockVars, schedVars, dispVars, resVars,
                   keyVars, injVars, timer, rec, queue>>

\* -------------------------------------------------------------- injector
\* injector.inject on the transcription worker.  Each Win32 call succeeds
\* or fails as the system decides; the outcome of one _set_clipboard_text
\* call is a record o: opens (OpenClipboard calls that failed before one
\* succeeded, _MAX_RETRIES when none did), alloc (GlobalAlloc returned a
\* handle), lock (GlobalLock returned a pointer), set (SetClipboardData
\* stored the data).
_MAX_RETRIES == 5

ClipOutcomes ==
    [opens : 0.._MAX_RETRIES, alloc : BOOLEAN, lock : BOOLEAN,
     set : BOOLEAN]

\* _open_clipboard(), the first `opens` calls of OpenClipboard failing
_open_clipboard(opens) == opens < _MAX_RETRIES

\* _set_clipboard_text(t) on clipboard content c: the value returned and
\* the content left.  EmptyClipboard has run on every path past the open;
\* the result of SetClipboardData is not looked at.
_set_clipboard_text(c, t, o) ==
    IF ~_open_clipboard(o.opens) THEN [ok |-> FALSE, clip |-> c]
    ELSE IF ~o.alloc \/ ~o.lock THEN [ok |-> FALSE, clip |-> <<>>]
    ELSE [ok |-> TRUE, clip |-> IF o.set THEN t ELSE <<>>]

\* inject(text) up to the try: `if not text: return`, then
\* original = _get_clipboard_text(), which is "" when the clipboard cannot
\* be opened or read.
InjectCall ==
    \E t \in {<<>>, <<"t">>, <<"u">>}, got \in {clipboard, <<>>} :
        /\ ipc = "idle"
        /\ injected < MaxInject
        /\ injected' = injected + 1
        /\ IF t = <<>>
           THEN UNCHANGED <<ipc, itext, original>>
           ELSE /\ ipc' = "set"
                /\ itext' = t
                /\ original' = got
        /\ UNCHANGED <<db, now, lockVars, schedVars, dispVars, resVars,
                       keyVars, clipboard, recoveryFile, keyboard,
                   mainVars>>

\* _set_clipboard_text(text); on False _save_recovery(text), whose write
\* may fail (the exception is logged), and return through the finally.
InjectSet ==
    \E o \in ClipOutcomes, written \in BOOLEAN :
        LET r == _set_clipboard_text(clipboard, itext, o) IN
        /\ ipc = "set"
        /\ clipboard' = r.clip
        /\ IF r.ok
           THEN /\ ipc' = "paste"
                /\ UNCHANGED recoveryFile
           ELSE /\ ipc' = "restore"
                /\ recoveryFile' =
                      IF written
                      THEN Append(recoveryFile,
                                  [at |-> now, text |-> itext])
                      ELSE recoveryFile
        /\ UNCHANGED <<db, now, lockVars, schedVars, dispVars, resVars,
                       keyVars, itext, original, keyboard, injected,
                   mainVars>>

\* time.sleep(0.05); Ctrl+V: the focused application pastes what the
\* clipboard holds.
InjectPaste ==
    /\ ipc = "paste"
    /\ keyboard' = Append(keyboard, clipboard)
    /\ ipc' = "restore"
    /\ UNCHANGED <<db, now, lockVars, schedVars, dispVars, resVars,
                   keyVars, itext, original, clipboard, recoveryFile,
                   injected,
                   mainVars>>

\* finally: _set_clipboard_text(original)
InjectRestore ==
    \E o \in ClipOutcomes :
        /\ ipc = "restore"
        /\ clipboard' = _set_clipboard_text(clipboard, original, o).clip
        /\ ipc' = "idle"
        /\ UNCHANGED <<db, now, lockVars, schedVars, dispVars, resVars,
                       keyVars, itext, original, recoveryFile, keyboard,
                       injected,
                   mainVars>>

\* ---------------------------------------------------------------- locales
\* locales._STRINGS, the keys the dispatcher uses.  A template is a sequence
\* of chunks: literal text, or a replacement field "{key}".
STRINGS ==
    [en |-> [note_saved |-> <<"Note saved (#", "{nid}", ")">>,
             list_saved |->
                 <<"List '", "{title}", "' saved (", "{count}", " items)">>,
             added_to_list |-> <<"Added to '", "{title}", "'">>,
             list_not_found |-> <<"List '", "{title}", "' not found">>,
             appointment_created |->
                 <<"Appointment created: ", "{title}", " (", "{dt}", ")">>,
             reminder_set |-> <<"Reminder set: ", "{dt}">>,
             unknown_command |-> <<"Unknown command: ", "{name}">>,
             error |-> <<"Error: ", "{detail}">>,
             not_understood |-> <<"I didn't understand the command">>,
             default_list_title |-> <<"L", "i", "s", "t">>],
     it |-> [note_saved |-> <<"Nota salvata (#", "{nid}", ")">>,
             list_saved |->
                 <<"Lista '", "{title}", "' salvata (", "{count}", " elementi)">>,
             added_to_list |-> <<"Aggiunto a '", "{title}", "'">>,
             list_not_found |-> <<"Lista '", "{title}", "' non trovata">>,
             appointment_created |->
                 <<"Appuntamento creato: ", "{title}", " (", "{dt}", ")">>,
             reminder_set |-> <<"Reminder impostato: ", "{dt}">>,
             unknown_command |-> <<"Comando sconosciuto: ", "{name}">>,
             error |-> <<"Errore: ", "{detail}">>,
             not_understood |-> <<"Non ho capito il comando">>,
             default_list_title |-> <<"L", "i", "s", "t", "a">>]]

FALLBACK == "en"

\* Values config.LANGUAGE may hold: the two tables and a language without one.
Languages == {"en", "it", "fr"}

Fields == {"{nid}", "{title}", "{count}", "{dt}", "{name}", "{detail}"}

\* get(key) without keyword arguments.
NoKw == <<>>

\* Mutant: the replacement values alone, without the template's literal text.
FormatValueOnly(template, kwargs) ==
    LET F[i \in 0..Len(template)] ==
            IF i = 0 THEN <<>>
            ELSE F[i - 1] \o (IF template[i] \in DOMAIN kwargs
                              THEN kwargs[template[i]] ELSE <<>>)
    IN  F[Len(template)]

\* template.format(**kwargs), every field of the template being in kwargs.
Format(template, kwargs) ==
    LET F[i \in 0..Len(template)] ==
            IF i = 0 THEN <<>>
            ELSE F[i - 1] \o (IF template[i] \in DOMAIN kwargs
                              THEN kwargs[template[i]] ELSE <<template[i]>>)
    IN  F[Len(template)]

\* locales.get(key, **kwargs) under config.LANGUAGE = lg.
get(lg, key, kwargs) ==
    LET table == IF lg \in DOMAIN STRINGS THEN STRINGS[lg] ELSE STRINGS[FALLBACK]
        template ==
            IF key \in DOMAIN table THEN table[key]
            ELSE IF key \in DOMAIN STRINGS[FALLBACK] THEN STRINGS[FALLBACK][key]
            ELSE <<key>>
    IN  IF DOMAIN kwargs = {} THEN template
        ELSE IF \E i \in 1..Len(template) :
                    template[i] \in Fields /\ template[i] \notin DOMAIN kwargs
        THEN template
        ELSE Format(template, kwargs)

\* str(v) as str.format renders a value: a str as itself, None, a list.
PyStr(v) ==
    CASE v.t = "str" -> v.s
      [] v.t = "null" -> <<"None">>
      [] OTHER ->
            LET F[i \in 0..Len(v.l)] ==
                    IF i = 0 THEN <<"[">>
                    ELSE F[i - 1] \o (IF i > 1 THEN <<", ">> ELSE <<>>)
                                  \o <<"'">> \o v.l[i] \o <<"'">>
            IN  F[Len(v.l)] \o <<"]">>

\* ---------------------------------------------------------------- dispatcher
\* assistant._dispatch.  A structured call fc is {"function": name,
\* "arguments": value}; "arguments" may be missing.
ToolNames ==
    {"save_note", "save_list", "add_to_list", "create_appointment",
     "set_reminder", "list_notes", "list_appointments", "list_reminders"}

\* An absent key of the arguments dict.
JAbsent == [t |-> "absent", s |-> <<>>, l |-> <<>>]

ArgKeys ==
    {"content", "category", "title", "items", "list_title",
     "datetime", "description", "message", "remind_at"}

NoArgs == [k \in ArgKeys |-> JAbsent]

\* The "arguments" value: a dict, or something without .get (None, a str),
\* or no "arguments" key at all.
Mapping(m) == [t |-> "map", m |-> m]
NotMapping(t) == [t |-> t, m |-> NoArgs]

Fc(name, arguments) == [function |-> name, arguments |-> arguments]
NoFc == Fc(JNull, NotMapping("missing"))

\* args = fc.get("arguments", {})
ArgumentsOf(fc) ==
    IF fc.arguments.t = "missing" THEN Mapping(NoArgs) ELSE fc.arguments

\* Mutant: the default written in the call is ignored, an absent key gives
\* the empty string.
GetEmpty(args, key, default) ==
    IF args.m[key].t = "absent" THEN [t |-> "str", s |-> <<>>, l |-> <<>>]
    ELSE args.m[key]

\* args.get(key, default) on a dict
Get(args, key, default) ==
    IF args.m[key].t = "absent" THEN default ELSE args.m[key]

\* len(v)
PyLen(v) == IF v.t = "list" THEN Len(v.l) ELSE Len(v.s)

\* What _dispatch (or a part of it) did: the store afterwards, the string
\* returned, the exception raised, and the exception the store function
\* raised, if it was one.
Returned(d, s) == [db |-> d, ret |-> s, exc |-> NoExc, store |-> NoExc]
Raised(d, e, st) == [db |-> d, ret |-> <<>>, exc |-> e, store |-> st]
NoOutcome == [ret |-> <<>>, exc |-> NoExc, store |-> NoExc]

\* sqlite3.connect / execute / commit may fail (locked or unwritable file).
Faults == {NoExc, "OperationalError"}
WithFault(fault, d, r) == IF fault # NoExc THEN Res(d, 0, fault) ELSE r

\* Mutant: no except clause.
CatchNothing(r, lg) == r

\* except Exception as exc: return locales.get("error", detail=str(exc))
Catch(r, lg) ==
    IF r.exc = NoExc THEN r
    ELSE [db |-> r.db, ret |-> get(lg, "error", "{detail}" :> <<r.exc>>),
          exc |-> NoExc, store |-> r.store]

\* Mutant: the final else arm saves a note.
BranchDefaultsToSave(name) ==
    IF \E n \in ToolNames : name = JStr(<<n>>) THEN name.s[1] ELSE "save_note"

\* The arm of the if / elif chain that name selects.
Branch(name) ==
    IF \E n \in ToolNames : name = JStr(<<n>>) THEN name.s[1] ELSE "else"

SaveNoteArm(d, lg, args, t, fault) ==
    IF args.t # "map" THEN Raised(d, "AttributeError", NoExc)
    ELSE LET r == WithFault(fault, d,
                    save_note(d, Get(args, "content", JStr(<<>>)),
                              Get(args, "category", JStr(<<"general">>)),
                              Get(args, "title", JStr(<<>>)), t))
         IN  IF r.exc # NoExc THEN Raised(d, r.exc, r.exc)
             ELSE Returned(r.db, get(lg, "note_saved", "{nid}" :> IntStr(r.val)))

SaveListArm(d, lg, args, t, fault) ==
    IF args.t # "map" THEN Raised(d, "AttributeError", NoExc)
    ELSE LET items == Get(args, "items", JList(<<>>))
             q == save_list(d, Get(args, "title",
                                   JStr(get(lg, "default_list_title", NoKw))),
                            items, Get(args, "category", JStr(<<"general">>)), t)
             r == IF q.exc = "TypeError" THEN q ELSE WithFault(fault, d, q)
         IN  IF r.exc # NoExc THEN Raised(d, r.exc, r.exc)
             ELSE IF items.t = "null" THEN Raised(r.db, "TypeError", NoExc)
             ELSE Returned(r.db,
                      get(lg, "list_saved",
                          ("{title}" :> PyStr(Get(args, "title", JStr(<<>>))))
                          @@ ("{count}" :> IntStr(PyLen(items)))))

CreateAppointmentArm(d, lg, args, t, fault) ==
    IF args.t # "map" THEN Raised(d, "AttributeError", NoExc)
    ELSE LET r == WithFault(fault, d,
                    create_appointment(d, Get(args, "title", JStr(<<>>)),
                                       Get(args, "datetime", JStr(<<>>)),
                                       Get(args, "description", JStr(<<>>)), t))
         IN  IF r.exc # NoExc THEN Raised(d, r.exc, r.exc)
             ELSE Returned(r.db,
                      get(lg, "appointment_created",
                          ("{title}" :> PyStr(Get(args, "title", JStr(<<>>))))
                          @@ ("{dt}" :> PyStr(Get(args, "datetime", JStr(<<>>))))))

SetReminderArm(d, lg, args, t, fault) ==
    IF args.t # "map" THEN Raised(d, "AttributeError", NoExc)
    ELSE LET r == WithFault(fault, d,
                    set_reminder(d, Get(args, "message", JStr(<<>>)),
                                 Get(args, "remind_at", JStr(<<>>)), t))
         IN  IF r.exc # NoExc THEN Raised(d, r.exc, r.exc)
             ELSE Returned(r.db,
                      get(lg, "reminder_set",
                          "{dt}" :> PyStr(Get(args, "remind_at", JStr(<<>>)))))

\* The arms that call the store at most once, and the arms that do not.
Arm(d, lg, name, args, t, fault) ==
    CASE Branch(name) = "save_note" -> SaveNoteArm(d, lg, args, t, fault)
      [] Branch(name) = "save_list" -> SaveListArm(d, lg, args, t, fault)
      [] Branch(name) = "create_appointment" ->
            CreateAppointmentArm(d, lg, args, t, fault)
      [] Branch(name) = "set_reminder" -> SetReminderArm(d, lg, args, t, fault)
      [] Branch(name) = "list_notes" -> Returned(d, <<"__show_notes__">>)
      [] Branch(name) = "list_appointments" ->
            Returned(d, <<"__show_appointments__">>)
      [] Branch(name) = "list_reminders" -> Returned(d, <<"__show_reminders__">>)
      [] OTHER ->
            Returned(d, get(lg, "unknown_command", "{name}" :> PyStr(name)))

\* A note row that is no row (find_list_by_title returned None).
NoRow ==
    [id |-> 0, title |-> <<>>, content |-> <<>>, category |-> <<>>,
     note_type |-> "", created_at |-> <<>>, updated_at |-> <<>>]

\* Mutant: ORDER BY updated_at ASC, the least recently updated match wins.
find_list_by_title_oldest(d, title) ==
    LET target == Lower(Strip(title.s))
        hits == {r \in d.notes :
                    /\ r.note_type = "list"
                    /\ Contains(Lower(Strip(r.title)), target)}
    IN  IF hits = {} THEN {NoRow}
        ELSE {r \in hits : \A q \in hits : StrLeq(r.updated_at, q.updated_at)}

\* Mutant: the title is not looked at, the most recently updated list is
\* returned.
find_list_by_title_any(d, title) ==
    LET hits == {r \in d.notes : r.note_type = "list"}
    IN  IF hits = {} THEN {NoRow}
        ELSE {r \in hits : \A q \in hits : StrLeq(q.updated_at, r.updated_at)}

\* database.find_list_by_title: the values it may return.  The rows come
\* ORDER BY updated_at DESC, rows with equal updated_at in any order, and
\* the first one whose title contains the target is returned.
find_list_by_title(d, title) ==
    LET target == Lower(Strip(title.s))
        hits == {r \in d.notes :
                    /\ r.note_type = "list"
                    /\ Contains(Lower(Strip(r.title)), target)}
    IN  IF hits = {} THEN {NoRow}
        ELSE {r \in hits : \A q \in hits : StrLeq(q.updated_at, r.updated_at)}

\* existing = db.find_list_by_title(args.get("list_title", "")): the row
\* found (NoRow for None), or the exception raised.
Found(x) == [exc |-> NoExc, store |-> NoExc, row |-> x]
FindRaised(e, st) == [exc |-> e, store |-> st, row |-> NoRow]

FindArm(d, args, fault) ==
    IF args.t # "map" THEN {FindRaised("AttributeError", NoExc)}
    ELSE IF fault # NoExc THEN {FindRaised(fault, fault)}
    ELSE IF Get(args, "list_title", JStr(<<>>)).t # "str"
    THEN {FindRaised("AttributeError", "AttributeError")}
    ELSE {Found(x) :
            x \in find_list_by_title(d, Get(args, "list_title", JStr(<<>>)))}

\* db.add_to_list(existing["id"], args.get("items", [])) and the return.
AddArm(d, lg, args, existing, t, fault) ==
    LET r == WithFault(fault, d,
                add_to_list(d, existing.id, Get(args, "items", JList(<<>>)), t))
    IN  IF r.exc # NoExc THEN Raised(d, r.exc, r.exc)
        ELSE Returned(r.db, get(lg, "added_to_list", "{title}" :> existing.title))

\* The calls handed to _dispatch: each name with the keys its arm reads,
\* each key missing, None or a value, and the arguments value itself a
\* dict, missing, None or a str.
Calls ==
    LET Names ==
            {JStr(<<n>>) : n \in ToolNames}
                \cup {JStr(<<"delete_note">>), JStr(<<"__show_notes__">>), JNull}
        KeysOf(name) ==
            CASE name = JStr(<<"save_note">>) -> <<"content", "category", "title">>
              [] name = JStr(<<"save_list">>) -> <<"title", "items", "category">>
              [] name = JStr(<<"add_to_list">>) -> <<"list_title", "items">>
              [] name = JStr(<<"create_appointment">>) ->
                    <<"title", "datetime", "description">>
              [] name = JStr(<<"set_reminder">>) -> <<"message", "remind_at">>
              [] OTHER -> <<>>
        ValuesOf(key) ==
            CASE key = "items" ->
                    {JAbsent, JNull, JStr(<<"x">>), JList(<<<<"x">>>>)}
              [] key \in {"datetime", "remind_at"} ->
                    {JAbsent, JNull, JStr(Iso(MaxTime))}
              [] key = "title" -> {JAbsent, JNull, JStr(<<"S">>)}
              [] key = "list_title" ->
                    {JAbsent, JNull, JStr(<<"s">>), JStr(<<"z">>)}
              [] key \in {"category", "description"} -> {JAbsent, JNull}
              [] OTHER -> {JAbsent, JNull, JStr(<<"c">>)}
        ArgMaps(name) ==
            LET ks == KeysOf(name)
                Vs(i) == IF i <= Len(ks) THEN ValuesOf(ks[i]) ELSE {JAbsent}
                At(k, x, y, z) ==
                    IF Len(ks) >= 1 /\ k = ks[1] THEN x
                    ELSE IF Len(ks) >= 2 /\ k = ks[2] THEN y
                    ELSE IF Len(ks) >= 3 /\ k = ks[3] THEN z
                    ELSE JAbsent
            IN  {[k \in ArgKeys |-> At(k, x, y, z)] :
                    x \in Vs(1), y \in Vs(2), z \in Vs(3)}
    IN  UNION {{Fc(name, a) :
                   a \in {Mapping(x) : x \in ArgMaps(name)}
                           \cup {NotMapping("missing"), NotMapping("null"),
                                 NotMapping("str")}} :
               name \in Names}

\* Rows and entries stay within the bounds.
CallInBounds(d, fc) ==
    CASE Branch(fc.function) \in {"save_note", "save_list"} -> d.noteSeq < MaxNotes
      [] Branch(fc.function) = "create_appointment" -> d.apptSeq < MaxAppts
      [] Branch(fc.function) = "set_reminder" -> d.remSeq < MaxRems
      [] OTHER -> TRUE

\* _dispatch(fc) for every arm but add_to_list.
Dispatch ==
    /\ dpc = "idle"
    /\ served < MaxCalls
    /\ \E fc \in Calls, fault \in Faults :
          /\ Branch(fc.function) # "add_to_list"
          /\ CallInBounds(db, fc)
          /\ LET r == Catch(Arm(db, lang, fc.function, ArgumentsOf(fc), now, fault),
                            lang)
             IN  /\ db' = r.db
                 /\ outcome' = [ret |-> r.ret, exc |-> r.exc, store |-> r.store]
                 /\ call' = fc
    /\ served' = served + 1
    /\ dpc' = "done"
    /\ UNCHANGED <<now, lockVars, schedVars, lang, found, resVars, keyVars, injVars, mainVars>>

\* _dispatch(fc), add_to_list arm, up to the return of find_list_by_title:
\* the call ends here when that raised or found no list.
DispatchFind ==
    /\ dpc = "idle"
    /\ served < MaxCalls
    /\ \E fc \in Calls, fault \in Faults :
          /\ Branch(fc.function) = "add_to_list"
          /\ call' = fc
          /\ \E f \in FindArm(db, ArgumentsOf(fc), fault) :
                IF f.exc = NoExc /\ f.row # NoRow
                THEN /\ Len(Loads(f.row.content))
                          + PyLen(Get(ArgumentsOf(fc), "items", JList(<<>>)))
                            <= MaxItems
                     /\ found' = f.row
                     /\ dpc' = "add"
                     /\ UNCHANGED <<outcome, served>>
                ELSE LET r == Catch(
                            IF f.exc # NoExc THEN Raised(db, f.exc, f.store)
                            ELSE Returned(db,
                                   get(lang, "list_not_found",
                                       "{title}" :> PyStr(Get(ArgumentsOf(fc),
                                                    "list_title", JStr(<<>>))))),
                            lang)
                     IN  /\ outcome' = [ret |-> r.ret, exc |-> r.exc,
                                        store |-> r.store]
                         /\ served' = served + 1
                         /\ dpc' = "done"
                         /\ UNCHANGED found
    /\ UNCHANGED <<db, now, lockVars, schedVars, lang, resVars, keyVars, injVars, mainVars>>

\* The rest of the add_to_list arm.
DispatchAdd ==
    /\ dpc = "add"
    /\ \E fault \in Faults :
          LET r == Catch(AddArm(db, lang, ArgumentsOf(call), found, now, fault),
                         lang)
          IN  /\ db' = r.db
              /\ outcome' = [ret |-> r.ret, exc |-> r.exc, store |-> r.store]
    /\ dpc' = "done"
    /\ found' = NoRow
    /\ served' = served + 1
    /\ UNCHANGED <<now, lockVars, schedVars, lang, call, resVars, keyVars, injVars, mainVars>>

\* main._assistant_worker: the string _dispatch returned is matched against
\* the sentinels and shown; the worker goes back to its queue.
WorkerShow ==
    /\ dpc = "done"
    /\ dpc' = "idle"
    /\ call' = NoFc
    /\ outcome' = NoOutcome
    /\ UNCHANGED <<db, now, lockVars, schedVars, lang, found, served, resVars, keyVars, injVars, mainVars>>

\* notes_window: the delete button of a note card, on the UI thread.
UiDeleteNote ==
    /\ \E id \in Ids(db.notes) : db' = delete_note(db, id).db
    /\ UNCHANGED <<now, lockVars, schedVars, dispVars, resVars, keyVars, injVars, mainVars>>

\* ---------------------------------------------------------------- resolver
\* assistant._call_ollama.  A JSON document is a tree: null, true, a
\* number, a str, a list of trees, an object (its members in order).
PNull == [t |-> "null", s |-> <<>>, l |-> <<>>, o |-> <<>>]
PTrue == [t |-> "true", s |-> <<>>, l |-> <<>>, o |-> <<>>]
PNum(x) == [t |-> "num", s |-> x, l |-> <<>>, o |-> <<>>]
PStr(x) == [t |-> "str", s |-> x, l |-> <<>>, o |-> <<>>]
PList(x) == [t |-> "list", s |-> <<>>, l |-> x, o |-> <<>>]
PObj(x) == [t |-> "obj", s |-> <<>>, l |-> <<>>, o |-> x]
Member(k, v) == [k |-> k, v |-> v]

\* The JSON text of a tree, as the server writes it.
RECURSIVE Dump(_)
Dump(v) ==
    CASE v.t = "null" -> <<"null">>
      [] v.t = "true" -> <<"true">>
      [] v.t = "num" -> v.s
      [] v.t = "str" -> <<"\"">> \o Esc(v.s) \o <<"\"">>
      [] v.t = "list" ->
            LET F[i \in 0..Len(v.l)] ==
                    IF i = 0 THEN <<"[">>
                    ELSE F[i - 1] \o (IF i > 1 THEN <<",">> ELSE <<>>)
                                  \o Dump(v.l[i])
            IN  F[Len(v.l)] \o <<"]">>
      [] OTHER ->
            LET F[i \in 0..Len(v.o)] ==
                    IF i = 0 THEN <<"{">>
                    ELSE F[i - 1] \o (IF i > 1 THEN <<",">> ELSE <<>>)
                                  \o <<"\"">> \o Esc(v.o[i].k) \o <<"\"", ":">>
                                  \o Dump(v.o[i].v)
            IN  F[Len(v.o)] \o <<"}">>

\* json.loads / resp.json(): ok is FALSE where they raise (JSONDecodeError).
Parsed(v, r) == [ok |-> TRUE, v |-> v, r |-> r]
NotJson == [ok |-> FALSE, v |-> PNull, r |-> <<>>]

RECURSIVE ScanStr(_, _)
ScanStr(s, acc) ==
    IF s = <<>> THEN NotJson
    ELSE IF Head(s) = "\"" THEN Parsed(PStr(acc), Tail(s))
    ELSE IF Head(s) = "\\"
    THEN IF Len(s) < 2 THEN NotJson
         ELSE ScanStr(Tail(Tail(s)), Append(acc, s[2]))
    ELSE ScanStr(Tail(s), Append(acc, Head(s)))

RECURSIVE ParseValue(_), ParseElements(_, _), ParseMembers(_, _)
ParseValue(s) ==
    IF s = <<>> THEN NotJson
    ELSE CASE Head(s) = "null" -> Parsed(PNull, Tail(s))
           [] Head(s) = "true" -> Parsed(PTrue, Tail(s))
           [] Head(s) \in {Digits[i] : i \in 1..10} ->
                 Parsed(PNum(<<Head(s)>>), Tail(s))
           [] Head(s) = "\"" -> ScanStr(Tail(s), <<>>)
           [] Head(s) = "[" ->
                 IF Len(s) >= 2 /\ s[2] = "]"
                 THEN Parsed(PList(<<>>), Tail(Tail(s)))
                 ELSE ParseElements(Tail(s), <<>>)
           [] Head(s) = "{" ->
                 IF Len(s) >= 2 /\ s[2] = "}"
                 THEN Parsed(PObj(<<>>), Tail(Tail(s)))
                 ELSE ParseMembers(Tail(s), <<>>)
           [] OTHER -> NotJson

ParseElements(s, acc) ==
    LET e == ParseValue(s)
    IN  IF ~e.ok \/ e.r = <<>> THEN NotJson
        ELSE IF Head(e.r) = "," THEN ParseElements(Tail(e.r), Append(acc, e.v))
        ELSE IF Head(e.r) = "]" THEN Parsed(PList(Append(acc, e.v)), Tail(e.r))
        ELSE NotJson

ParseMembers(s, acc) ==
    IF s = <<>> \/ Head(s) # "\"" THEN NotJson
    ELSE LET k == ScanStr(Tail(s), <<>>)
         IN  IF ~k.ok \/ k.r = <<>> \/ Head(k.r) # ":" THEN NotJson
             ELSE LET e == ParseValue(Tail(k.r))
                      kv == Append(acc, Member(k.v.s, e.v))
                  IN  IF ~e.ok \/ e.r = <<>> THEN NotJson
                      ELSE IF Head(e.r) = "," THEN ParseMembers(Tail(e.r), kv)
                      ELSE IF Head(e.r) = "}" THEN Parsed(PObj(kv), Tail(e.r))
                      ELSE NotJson

json_loads(s) ==
    LET p == ParseValue(s) IN IF p.ok /\ p.r = <<>> THEN p ELSE NotJson

\* Python on a tree: key in dict, dict[key] (the last member of that name),
\* dict.get(key, default), truth value.
HasKey(v, key) == \E i \in 1..Len(v.o) : v.o[i].k = key
Item(v, key) ==
    v.o[CHOOSE i \in 1..Len(v.o) :
            v.o[i].k = key /\ \A j \in (i + 1)..Len(v.o) : v.o[j].k # key].v
GetOr(v, key, default) == IF HasKey(v, key) THEN Item(v, key) ELSE default
Truthy(v) ==
    CASE v.t = "null" -> FALSE
      [] v.t = "true" -> TRUE
      [] v.t = "num" -> v.s # <<"0">>
      [] v.t = "str" -> v.s # <<>>
      [] v.t = "list" -> v.l # <<>>
      [] OTHER -> v.o # <<>>

\* What _call_ollama (or a part of it) did: returned val, or raised exc;
\* go is TRUE when it has done neither yet.
Return(v) == [val |-> v, exc |-> NoExc, go |-> FALSE]
Throw(e) == [val |-> PNull, exc |-> e, go |-> FALSE]
GoOn == [val |-> PNull, exc |-> NoExc, go |-> TRUE]
NoResolved == [val |-> PNull, exc |-> NoExc]

\* v[key] for a str key
Subscript(v, key) ==
    IF v.t # "obj" THEN Throw("TypeError")
    ELSE IF ~HasKey(v, key) THEN Throw("KeyError")
    ELSE Return(Item(v, key))

\* tool_calls[0]
First(v) ==
    CASE v.t = "list" -> Return(v.l[1])
      [] v.t = "str" -> Return(PStr(<<v.s[1]>>))
      [] OTHER -> Throw("KeyError")

\* msg = data.get("message", {}) ... return {"function": ..., "arguments": ...}
ToolCallsPart(d) ==
    IF d.t # "obj" THEN Throw("AttributeError")
    ELSE LET msg == GetOr(d, <<"message">>, PObj(<<>>))
         IN  IF msg.t # "obj" THEN Throw("AttributeError")
             ELSE LET tool_calls == GetOr(msg, <<"tool_calls">>, PNull)
                  IN  IF ~Truthy(tool_calls) THEN GoOn
                      ELSE IF tool_calls.t \in {"num", "true"}
                      THEN Throw("TypeError")
                      ELSE LET tc == First(tool_calls)
                               f == Subscript(tc.val, <<"function">>)
                               name == Subscript(f.val, <<"name">>)
                           IN  IF tc.exc # NoExc THEN tc
                               ELSE IF f.exc # NoExc THEN f
                               ELSE IF name.exc # NoExc THEN name
                               ELSE Return(PObj(<<
                                       Member(<<"function">>, name.val),
                                       Member(<<"arguments">>,
                                              GetOr(f.val, <<"arguments">>,
                                                    PObj(<<>>)))>>))

\* "function" in parsed
InParsed(v) ==
    CASE v.t = "obj" -> HasKey(v, <<"function">>)
      [] v.t = "list" -> \E i \in 1..Len(v.l) : v.l[i] = PStr(<<"function">>)
      [] v.t = "str" -> Contains(v.s, <<"function">>)
      [] OTHER -> FALSE

\* content = msg.get("content", "").strip() ... return None
ContentPart(d) ==
    LET content == GetOr(GetOr(d, <<"message">>, PObj(<<>>)), <<"content">>,
                         PStr(<<>>))
        parsed == json_loads(Strip(content.s))
    IN  IF content.t # "str" THEN Throw("AttributeError")
        ELSE IF Strip(content.s) = <<>> THEN Return(PNull)
        ELSE IF parsed.ok /\ InParsed(parsed.v) THEN Return(parsed.v)
        ELSE Return(PNull)

\* What requests.post / raise_for_status meet: no requests library, no
\* connection, no answer within the timeout, a 4xx / 5xx status, or a 200
\* with some text as its body: the JSON text of a body the server (or
\* whatever answers at OLLAMA_URL) may send, or text that is not JSON.
Response(kind, text) == [kind |-> kind, text |-> text]
Responses ==
    LET Obj1(k, v) == PObj(<<Member(k, v)>>)
        ArgumentsValues ==
            {PObj(<<>>), Obj1(<<"content">>, PStr(<<"c">>)), PNull}
        FunctionValues ==
            {PNull, PStr(<<"save_note">>), PObj(<<>>)}
                \cup {Obj1(<<"name">>, n) :
                        n \in {PStr(<<"save_note">>), PStr(<<"list_notes">>),
                               PNull}}
                \cup {PObj(<<Member(<<"name">>, PStr(<<"save_note">>)),
                             Member(<<"arguments">>, a)>>) :
                        a \in ArgumentsValues}
        Entries ==
            {PNull, PStr(<<"x">>), PObj(<<>>)}
                \cup {Obj1(<<"function">>, f) : f \in FunctionValues}
        ToolCallsValues ==
            {PNull, PTrue, PNum(<<"1">>), PNum(<<"0">>), PStr(<<"x">>),
             PStr(<<>>), PObj(<<>>), Obj1(<<"a">>, PNull), PList(<<>>)}
                \cup {PList(<<e>>) : e \in Entries}
        ContentTexts ==
            {<<>>, <<" ">>, <<"h", "i">>, <<"5">>, <<"null">>, <<"{">>}
                \cup {Dump(v) : v \in
                        {PObj(<<>>),
                         Obj1(<<"name">>, PStr(<<"save_note">>)),
                         Obj1(<<"function">>, PStr(<<"save_note">>)),
                         PObj(<<Member(<<"function">>, PStr(<<"list_notes">>)),
                                Member(<<"arguments">>, PObj(<<>>))>>),
                         PStr(<<"function">>),
                         PStr(<<"n", "o">>),
                         PList(<<PStr(<<"function">>)>>)}}
                \cup {<<" ">>
                        \o Dump(Obj1(<<"function">>, PStr(<<"list_notes">>)))
                        \o <<" ">>}
        ContentValues ==
            {PNull, PNum(<<"1">>)} \cup {PStr(x) : x \in ContentTexts}
        Messages ==
            {PNull, PStr(<<"h", "i">>), PList(<<>>)}
                \cup {PObj(a \o b) :
                        a \in {<<>>} \cup {<<Member(<<"tool_calls">>, v)>> :
                                              v \in ToolCallsValues},
                        b \in {<<>>} \cup {<<Member(<<"content">>, c)>> :
                                              c \in ContentValues}}
        Bodies ==
            {PNull, PTrue, PNum(<<"1">>), PStr(<<"o", "k">>), PList(<<>>),
             PObj(<<>>), Obj1(<<"error">>, PStr(<<"n", "o">>))}
                \cup {Obj1(<<"message">>, x) : x \in Messages}
    IN  {Response(k, <<>>) :
            k \in {"no_requests", "ConnectionError", "Timeout", "HTTPError"}}
            \cup {Response("ok", x) :
                    x \in {Dump(y) : y \in Bodies}
                            \cup {<<>>, <<"<", "html", ">">>}}

\* _call_ollama up to `data = resp.json()`: every failure here returns None.
ResolveRequest ==
    /\ rpc = "idle"
    /\ dpc = "idle"
    /\ \E r \in Responses :
          IF r.kind = "ok" /\ json_loads(r.text).ok
          THEN /\ rpc' = "tool_calls"
               /\ data' = json_loads(r.text).v
               /\ UNCHANGED resolved
          ELSE /\ rpc' = "returned"
               /\ resolved' = [val |-> PNull, exc |-> NoExc]
               /\ UNCHANGED data
    /\ UNCHANGED <<db, now, lockVars, schedVars, dispVars, keyVars, injVars, mainVars>>

\* From `msg = data.get("message", {})` to the return inside `if tool_calls`.
ResolveToolCalls ==
    /\ rpc = "tool_calls"
    /\ LET r == ToolCallsPart(data)
       IN  IF r.go THEN /\ rpc' = "content"
                        /\ UNCHANGED <<data, resolved>>
           ELSE /\ rpc' = "returned"
                /\ data' = PNull
                /\ resolved' = [val |-> r.val, exc |-> r.exc]
    /\ UNCHANGED <<db, now, lockVars, schedVars, dispVars, keyVars, injVars, mainVars>>

\* From `content = msg.get("content", "").strip()` to the end.
ResolveContent ==
    /\ rpc = "content"
    /\ LET r == ContentPart(data)
       IN  /\ rpc' = "returned"
           /\ data' = PNull
           /\ resolved' = [val |-> r.val, exc |-> r.exc]
    /\ UNCHANGED <<db, now, lockVars, schedVars, dispVars, keyVars, injVars, mainVars>>

\* Mutant: None is handed to the dispatcher like any other value.
ProcessDispatchesNone ==
    /\ rpc = "returned"
    /\ rpc' = "idle"
    /\ resolved' = NoResolved
    /\ dpc' = "done"
    /\ served < MaxCalls
    /\ served' = served + 1
    /\ outcome' = [ret |-> <<>>, exc |-> "TypeError", store |-> NoExc]
    /\ UNCHANGED <<db, call>>
    /\ UNCHANGED <<now, lockVars, schedVars, lang, found, data, keyVars, injVars, mainVars>>

\* The call _call_ollama returned, as _dispatch reads it: fc["function"]
\* and fc.get("arguments", {}), the argument values of Responses being
\* None, a str or a list of str.
ToFc(v) ==
    LET FromJson(x) ==
            CASE x.t = "str" -> JStr(x.s)
              [] x.t = "list" -> JList([i \in 1..Len(x.l) |-> x.l[i].s])
              [] OTHER -> JNull
        a == GetOr(v, <<"arguments">>, PNull)
    IN  Fc(FromJson(Item(v, <<"function">>)),
           IF ~HasKey(v, <<"arguments">>) THEN NotMapping("missing")
           ELSE IF a.t = "obj"
           THEN Mapping([k \in ArgKeys |->
                           IF HasKey(a, <<k>>) THEN FromJson(Item(a, <<k>>))
                           ELSE JAbsent])
           ELSE NotMapping(IF a.t = "null" THEN "null" ELSE "str"))

\* assistant.process after `fc = _call_ollama(text)`: an exception of the
\* resolver propagates, None gives the not_understood message, anything
\* else goes to _dispatch, whose `name = fc["function"]` raises TypeError
\* outside the try on a str or a list.
Process ==
    /\ rpc = "returned"
    /\ rpc' = "idle"
    /\ resolved' = NoResolved
    /\ dpc' = "done"
    /\ IF resolved.exc # NoExc
       THEN /\ outcome' = [ret |-> <<>>, exc |-> resolved.exc, store |-> NoExc]
            /\ UNCHANGED <<db, call, served>>
       ELSE IF resolved.val = PNull
       THEN /\ outcome' = [ret |-> get(lang, "not_understood", NoKw),
                           exc |-> NoExc, store |-> NoExc]
            /\ UNCHANGED <<db, call, served>>
       ELSE IF resolved.val.t # "obj"
       THEN /\ served < MaxCalls
            /\ served' = served + 1
            /\ outcome' = [ret |-> <<>>, exc |-> "TypeError", store |-> NoExc]
            /\ UNCHANGED <<db, call>>
       ELSE LET fc == ToFc(resolved.val)
                args == ArgumentsOf(fc)
                add == Branch(fc.function) = "add_to_list"
            IN  /\ served < MaxCalls
                /\ CallInBounds(db, fc)
                /\ served' = served + 1
                /\ call' = fc
                /\ \E fault \in Faults, later \in Faults :
                   \E f \in IF add THEN FindArm(db, args, fault)
                                   ELSE {Found(NoRow)} :
                      LET r == Catch(
                            IF ~add
                            THEN Arm(db, lang, fc.function, args, now, fault)
                            ELSE IF f.exc # NoExc
                            THEN Raised(db, f.exc, f.store)
                            ELSE IF f.row = NoRow
                            THEN Returned(db,
                                   get(lang, "list_not_found",
                                       "{title}" :> PyStr(Get(args,
                                                    "list_title", JStr(<<>>)))))
                            ELSE AddArm(db, lang, args, f.row, now, later),
                            lang)
                      IN  /\ db' = r.db
                          /\ outcome' = [ret |-> r.ret, exc |-> r.exc,
                                         store |-> r.store]
    /\ UNCHANGED <<now, lockVars, schedVars, lang, found, data, keyVars, injVars, mainVars>>

Init ==
    /\ db = EmptyDb
    /\ now = 0
    /\ lock = 0
    /\ pc = [t \in 1..NumCallers |-> "idle"]
    /\ cur = [t \in 1..NumCallers |-> NoCall]
    /\ hist = [saved |-> <<>>, deleted |-> {}]
    /\ spc = "loop"
    /\ stopEv = FALSE
    /\ pending = <<>>
    /\ item = NoItem
    /\ marked = {}
    /\ swept = FALSE
    /\ lang = "en"
    /\ dpc = "idle"
    /\ call = NoFc
    /\ found = NoRow
    /\ outcome = NoOutcome
    /\ served = 0
    /\ rpc = "idle"
    /\ data = PNull
    /\ resolved = NoResolved
    /\ holdMode = TRUE
    /\ keyDown = [k \in {"dictation", "assistant"} |-> FALSE]
    /\ pressed = [k \in {"dictation", "assistant"} |-> FALSE]
    /\ recording = [k \in {"dictation", "assistant"} |-> FALSE]
    /\ fired = <<>>
    /\ ipc = "idle"
    /\ itext = <<>>
    /\ original = <<>>
    /\ clipboard = <<"o">>
    /\ recoveryFile = <<>>
    /\ keyboard = <<>>
    /\ injected = 0
    /\ MainInit

NextSched ==
    \/ Tick
    \/ CallSetReminder \/ CallCreateAppointment
    \/ CallDeleteReminder \/ CallDeleteAppointment
    \/ SchedLoop \/ RemFetch \/ RemToast \/ RemMark \/ RemPhaseRaises
    \/ ApptFetch \/ ApptToast \/ ApptMark \/ ApptPhaseRaises \/ SchedWait

SpecSched == Init /\ [][NextSched]_vars

\* The sweeps at one instant of the clock, the callers inserting again into
\* a table they have emptied.
NextReuse ==
    \/ CallSetReminder \/ CallCreateAppointment
    \/ CallDeleteReminder \/ CallDeleteAppointment \/ CallInsertAgain
    \/ SchedStep

SpecReuse == Init /\ [][NextReuse]_vars

\* The store under its caller threads, statement by statement.
Next ==
    \/ Tick
    \/ \E t \in 1..NumCallers :
          \/ \E c \in StoreCalls : Acquire(t, c)
          \/ Connect(t)
          \/ Execute(t)
          \/ Close(t)
          \/ Raise(t)

Spec == Init /\ [][Next]_vars

\* The scheduler keeps running: stop() is never called and neither the store
\* nor the toast raises.  The scheduler thread is a thread of its own, so
\* its next step is eventually taken.
\* Reminders come and go while one appointment, stored by an earlier run of
\* the program, is due in the first sweep.
InitLive ==
    /\ db = create_appointment(EmptyDb, JStr(<<"a">>), JStr(Iso(0)), JStr(<<>>), 0).db
    /\ now = 0
    /\ lock = 0
    /\ pc = [t \in 1..NumCallers |-> "idle"]
    /\ cur = [t \in 1..NumCallers |-> NoCall]
    /\ hist = [saved |-> <<>>, deleted |-> {}]
    /\ spc = "loop"
    /\ stopEv = FALSE
    /\ pending = <<>>
    /\ item = NoItem
    /\ marked = {}
    /\ swept = FALSE
    /\ lang = "en"
    /\ dpc = "idle"
    /\ call = NoFc
    /\ found = NoRow
    /\ outcome = NoOutcome
    /\ served = 0
    /\ rpc = "idle"
    /\ data = PNull
    /\ resolved = NoResolved
    /\ holdMode = TRUE
    /\ keyDown = [k \in {"dictation", "assistant"} |-> FALSE]
    /\ pressed = [k \in {"dictation", "assistant"} |-> FALSE]
    /\ recording = [k \in {"dictation", "assistant"} |-> FALSE]
    /\ fired = <<>>
    /\ ipc = "idle"
    /\ itext = <<>>
    /\ original = <<>>
    /\ clipboard = <<"o">>
    /\ recoveryFile = <<>>
    /\ keyboard = <<>>
    /\ injected = 0
    /\ MainInit

NextLive ==
    \/ Tick
    \/ CallSetReminder \/ CallDeleteReminder
    \/ SchedStep

SpecLive == InitLive /\ [][NextLive]_vars /\ WF_vars(SchedStep)

\* The same with the clock tied to the 30 s period: a sweep takes no time
\* and at most one tick passes during one wait.
WaitTick ==
    /\ spc = "wait"
    /\ now < MaxTime
    /\ now' = now + 1
    /\ spc' = "loop"
    /\ UNCHANGED <<db, lockVars, stopEv, pending, item, marked, swept, dispVars, resVars, keyVars, injVars, mainVars>>

NextLiveTimed ==
    \/ WaitTick
    \/ CallSetReminder \/ CallCreateAppointment
    \/ CallDeleteReminder \/ CallDeleteAppointment
    \/ SchedStep

SpecLiveTimed == Init /\ [][NextLiveTimed]_vars /\ WF_vars(SchedStep)

\* The scheduler and main._quit: the wait ends when the event is set or
\* when the period has passed on the clock; only the loop thread's own
\* steps are fair, the clock may stand still.
NextStop ==
    \/ WaitTick \/ WaitInterrupted
    \/ Stop
    \/ CallSetReminder
    \/ SchedLoop \/ RemFetch \/ RemToast \/ RemMark \/ RemPhaseRaises
    \/ ApptFetch \/ ApptToast \/ ApptMark \/ ApptPhaseRaises

SpecStop ==
    /\ InitLive
    /\ [][NextStop]_vars
    /\ WF_vars(SchedLoop \/ RemFetch \/ RemToast \/ RemMark \/ RemPhaseRaises
                  \/ ApptFetch \/ ApptToast \/ ApptMark \/ ApptPhaseRaises
                  \/ WaitInterrupted)

\* The dispatcher on the assistant worker thread and the UI thread deleting
\* notes in between.  config.LANGUAGE is fixed at start-up.
InitDispatch ==
    /\ db = EmptyDb
    /\ now = 0
    /\ lock = 0
    /\ pc = [t \in 1..NumCallers |-> "idle"]
    /\ cur = [t \in 1..NumCallers |-> NoCall]
    /\ hist = [saved |-> <<>>, deleted |-> {}]
    /\ spc = "loop"
    /\ stopEv = FALSE
    /\ pending = <<>>
    /\ item = NoItem
    /\ marked = {}
    /\ swept = FALSE
    /\ lang \in Languages
    /\ dpc = "idle"
    /\ call = NoFc
    /\ found = NoRow
    /\ outcome = NoOutcome
    /\ served = 0
    /\ rpc = "idle"
    /\ data = PNull
    /\ resolved = NoResolved
    /\ holdMode = TRUE
    /\ keyDown = [k \in {"dictation", "assistant"} |-> FALSE]
    /\ pressed = [k \in {"dictation", "assistant"} |-> FALSE]
    /\ recording = [k \in {"dictation", "assistant"} |-> FALSE]
    /\ fired = <<>>
    /\ ipc = "idle"
    /\ itext = <<>>
    /\ original = <<>>
    /\ clipboard = <<"o">>
    /\ recoveryFile = <<>>
    /\ keyboard = <<>>
    /\ injected = 0
    /\ MainInit

NextDispatch ==
    \/ Dispatch \/ DispatchFind \/ DispatchAdd \/ WorkerShow
    \/ UiDeleteNote

SpecDispatch == InitDispatch /\ [][NextDispatch]_vars

\* assistant.process on the assistant worker thread, one text after another:
\* the resolver, then the dispatcher.
NextResolver ==
    \/ ResolveRequest \/ ResolveToolCalls \/ ResolveContent
    \/ Process \/ WorkerShow

SpecResolver == InitDispatch /\ [][NextResolver]_vars

\* The notes functions, one call after another, on a new store file.
NextStore == Tick \/ NoteOp

SpecStore == Init /\ [][NextStore]_vars

\* init and the appointments functions on a store file that is new or was
\* left by an earlier version of the program.
InitAppts ==
    /\ db \in {EmptyDb, LegacyDb}
    /\ now = 0
    /\ lock = 0
    /\ pc = [t \in 1..NumCallers |-> "idle"]
    /\ cur = [t \in 1..NumCallers |-> NoCall]
    /\ hist = [saved |-> <<>>, deleted |-> {}]
    /\ spc = "loop"
    /\ stopEv = FALSE
    /\ pending = <<>>
    /\ item = NoItem
    /\ marked = {}
    /\ swept = FALSE
    /\ lang = "en"
    /\ dpc = "idle"
    /\ call = NoFc
    /\ found = NoRow
    /\ outcome = NoOutcome
    /\ served = 0
    /\ rpc = "idle"
    /\ data = PNull
    /\ resolved = NoResolved
    /\ holdMode = TRUE
    /\ keyDown = [k \in {"dictation", "assistant"} |-> FALSE]
    /\ pressed = [k \in {"dictation", "assistant"} |-> FALSE]
    /\ recording = [k \in {"dictation", "assistant"} |-> FALSE]
    /\ fired = <<>>
    /\ ipc = "idle"
    /\ itext = <<>>
    /\ original = <<>>
    /\ clipboard = <<"o">>
    /\ recoveryFile = <<>>
    /\ keyboard = <<>>
    /\ injected = 0
    /\ MainInit

NextAppts == Tick \/ StoreInit \/ ApptOp

SpecAppts == InitAppts /\ [][NextAppts]_vars

\* The scheduler over a store file that holds two reminders when the
\* program starts.
InitSweep ==
    /\ \E a \in RemindAts, b \in RemindAts :
          db = set_reminder(set_reminder(EmptyDb, JStr(<<"m">>), JStr(a), 0).db,
                            JStr(<<"n">>), JStr(b), 0).db
    /\ now = 0
    /\ lock = 0
    /\ pc = [t \in 1..NumCallers |-> "idle"]
    /\ cur = [t \in 1..NumCallers |-> NoCall]
    /\ hist = [saved |-> <<>>, deleted |-> {}]
    /\ spc = "loop"
    /\ stopEv = FALSE
    /\ pending = <<>>
    /\ item = NoItem
    /\ marked = {}
    /\ swept = FALSE
    /\ lang = "en"
    /\ dpc = "idle"
    /\ call = NoFc
    /\ found = NoRow
    /\ outcome = NoOutcome
    /\ served = 0
    /\ rpc = "idle"
    /\ data = PNull
    /\ resolved = NoResolved
    /\ holdMode = TRUE
    /\ keyDown = [k \in {"dictation", "assistant"} |-> FALSE]
    /\ pressed = [k \in {"dictation", "assistant"} |-> FALSE]
    /\ recording = [k \in {"dictation", "assistant"} |-> FALSE]
    /\ fired = <<>>
    /\ ipc = "idle"
    /\ itext = <<>>
    /\ original = <<>>
    /\ clipboard = <<"o">>
    /\ recoveryFile = <<>>
    /\ keyboard = <<>>
    /\ injected = 0
    /\ MainInit

NextSweep ==
    \/ Tick
    \/ CallCreateAppointment \/ CallDeleteReminder
    \/ SchedLoop \/ RemFetch \/ RemToast \/ RemMark \/ RemPhaseRaises
    \/ ApptFetch \/ ApptToast \/ ApptMark \/ ApptPhaseRaises \/ SchedWait

SpecSweep == InitSweep /\ [][NextSweep]_vars

\* The same under the timed clock, the scheduler thread being scheduled
\* fairly; nothing obliges a phase to raise.
NextSweepLive ==
    \/ WaitTick
    \/ CallCreateAppointment \/ CallDeleteAppointment
    \/ SchedStep
    \/ RemPhaseRaises \/ ApptPhaseRaises

SpecSweepLive == InitSweep /\ [][NextSweepLive]_vars /\ WF_vars(SchedStep)

\* Two caller threads and one list note, empty when they start.
InitList ==
    /\ db = save_list(EmptyDb, JStr(<<"S">>), JList(<<>>),
                      JStr(<<"general">>), 0).db
    /\ now = 0
    /\ lock = 0
    /\ pc = [t \in 1..NumCallers |-> "idle"]
    /\ cur = [t \in 1..NumCallers |-> NoCall]
    /\ hist = [saved |-> <<>>, deleted |-> {}]
    /\ spc = "loop"
    /\ stopEv = FALSE
    /\ pending = <<>>
    /\ item = NoItem
    /\ marked = {}
    /\ swept = FALSE
    /\ lang = "en"
    /\ dpc = "idle"
    /\ call = NoFc
    /\ found = NoRow
    /\ outcome = NoOutcome
    /\ served = 0
    /\ rpc = "idle"
    /\ data = PNull
    /\ resolved = NoResolved
    /\ holdMode = TRUE
    /\ keyDown = [k \in {"dictation", "assistant"} |-> FALSE]
    /\ pressed = [k \in {"dictation", "assistant"} |-> FALSE]
    /\ recording = [k \in {"dictation", "assistant"} |-> FALSE]
    /\ fired = <<>>
    /\ ipc = "idle"
    /\ itext = <<>>
    /\ original = <<>>
    /\ clipboard = <<"o">>
    /\ recoveryFile = <<>>
    /\ keyboard = <<>>
    /\ injected = 0
    /\ MainInit

NextList ==
    \/ Tick
    \/ \E t \in 1..NumCallers :
          \/ \E c \in ListCalls : Acquire(t, c)
          \/ Connect(t)
          \/ ListSelect(t)
          \/ ListUpdate(t)
          \/ Close(t)
          \/ Raise(t)

SpecList == InitList /\ [][NextList]_vars

\* The hotkey listener, the mode being the one _load_settings found at
\* start-up.
InitHotkey ==
    /\ db = EmptyDb
    /\ now = 0
    /\ lock = 0
    /\ pc = [t \in 1..NumCallers |-> "idle"]
    /\ cur = [t \in 1..NumCallers |-> NoCall]
    /\ hist = [saved |-> <<>>, deleted |-> {}]
    /\ spc = "loop"
    /\ stopEv = FALSE
    /\ pending = <<>>
    /\ item = NoItem
    /\ marked = {}
    /\ swept = FALSE
    /\ lang = "en"
    /\ dpc = "idle"
    /\ call = NoFc
    /\ found = NoRow
    /\ outcome = NoOutcome
    /\ served = 0
    /\ rpc = "idle"
    /\ data = PNull
    /\ resolved = NoResolved
    /\ holdMode \in BOOLEAN
    /\ keyDown = [k \in {"dictation", "assistant"} |-> FALSE]
    /\ pressed = [k \in {"dictation", "assistant"} |-> FALSE]
    /\ recording = [k \in {"dictation", "assistant"} |-> FALSE]
    /\ fired = <<>>
    /\ ipc = "idle"
    /\ itext = <<>>
    /\ original = <<>>
    /\ clipboard = <<"o">>
    /\ recoveryFile = <<>>
    /\ keyboard = <<>>
    /\ injected = 0
    /\ MainInit

NextHotkey == HandlePress \/ HandleRelease \/ TimerExpire \/ ForceStop

SpecHotkey == InitHotkey /\ [][NextHotkey]_vars

\* The listener and the timers, each timer thread running once its delay
\* has passed (threading.Timer) and finishing force_stop_* once in it.
SpecHotkeyLive ==
    /\ InitHotkey
    /\ [][NextHotkey]_vars
    /\ WF_vars(TimerExpire)
    /\ WF_vars(ForceStop)

\* The same with the settings window open: the mode may be switched at any
\* moment.
NextMode == HandlePress \/ HandleRelease \/ TimerExpire \/ ForceStop \/ SetMode

SpecMode == InitHotkey /\ [][NextMode]_vars

\* The program from start-up to exit: the listener's callbacks fill the
\* queues, the workers empty them, the tray menu's Quit ends it.
NextMain ==
    \/ HandlePress \/ HandleRelease
    \/ WorkerGet \/ WorkerHandle
    \/ Quit \/ MainReturns

SpecMain == InitHotkey /\ [][NextMain]_vars

\* The injector, called once per dictation.
NextInject ==
    Tick \/ InjectCall \/ InjectSet \/ InjectPaste \/ InjectRestore

SpecInject == Init /\ [][NextInject]_vars

\* ---------------------------------------------------------------- claims
IsIso(s) == \E t \in 0..9 : Iso(t) = s
TimeOf(s) == CHOOSE t \in 0..9 : Iso(t) = s

\* C1: once mark_reminder_notified(id) / mark_appointment_notified(id) has
\* returned, no later step of the scheduler sends a toast for that id,
\* whatever the other threads do to the store in between.
C1_NoRenotify ==
    [][/\ (spc = "rem_toast" /\ spc' = "rem_mark")
            => <<"rem", item'.id>> \notin marked
       /\ (spc = "appt_toast" /\ spc' = "appt_mark")
            => <<"appt", item'.id>> \notin marked]_vars

\* A marked row that is still stored and still due was passed over by a
\* later fetch of its table.
C1_Witness == swept

\* C2: a new reminder / appointment row has notified = 0; the flag of a
\* stored row never decreases, and it changes only in the scheduler's
\* mark step for that row.
C2_NotifiedMonotone ==
    [][/\ \A r \in db'.rems :
            IF r.id \in Ids(db.rems)
            THEN /\ Row(db.rems, r.id).notified <= r.notified
                 /\ Row(db.rems, r.id).notified # r.notified
                        => spc = "rem_mark" /\ item.id = r.id
            ELSE r.notified = 0
       /\ \A r \in db'.appts :
            IF r.id \in Ids(db.appts)
            THEN /\ Row(db.appts, r.id).notified <= r.notified
                 /\ Row(db.appts, r.id).notified # r.notified
                        => spc = "appt_mark" /\ item.id = r.id
            ELSE r.notified = 0]_vars

C2_Witness ==
    /\ \E r \in db.rems : r.notified = 1
    /\ \E r \in db.appts : r.notified = 1

\* C7: every stored appointment with notified = 0 whose dt is within or
\* before the lead window (dt <= now + lead, a dt already in the past
\* included) is eventually notified and marked, unless it is deleted.
C7_ApptEventuallyNotified ==
    \A id \in 1..MaxAppts :
        (\E r \in db.appts :
            /\ r.id = id /\ r.notified = 0
            /\ IsIso(r.dt) /\ TimeOf(r.dt) <= now + LeadTicks)
        ~> (\A r \in db.appts : r.id = id => r.notified = 1)

\* C8: every stored reminder with notified = 0 whose remind_at has passed
\* is eventually notified and marked, unless it is deleted.
C8_ReminderEventuallyNotified ==
    \A id \in 1..MaxRems :
        (\E r \in db.rems :
            /\ r.id = id /\ r.notified = 0
            /\ IsIso(r.remind_at) /\ TimeOf(r.remind_at) <= now)
        ~> (\A r \in db.rems : r.id = id => r.notified = 1)

\* A reminder that was due has been notified and marked by a sweep.
C8_Witness ==
    \E r \in db.rems :
        /\ r.notified = 1 /\ <<"rem", r.id>> \in marked
        /\ TimeOf(r.remind_at) <= now

\* C3: at most one thread at a time is between `with _lock` and the end of
\* the block (open / execute / commit / close), and a thread outside the
\* block, however it left it, does not hold the lock.
C3_MutualExclusion ==
    /\ Cardinality({t \in 1..NumCallers : pc[t] # "idle"}) <= 1
    /\ \A t \in 1..NumCallers : (lock = t) <=> (pc[t] # "idle")

\* A thread has left the block by an exception (its INSERT violated NOT
\* NULL) and another thread is inside the block.
C3_Witness ==
    \E t, u \in 1..NumCallers :
        /\ t # u /\ pc[t] = "exec" /\ lock = t
        /\ pc[u] = "idle" /\ cur[u] = StoreCall("save_note", 0, JNull)

\* C4: the ids save_note returned are strictly increasing in commit order
\* (so pairwise distinct), and the text notes stored are exactly those
\* returned ids that no delete_note removed: no write is lost.
C4_SaveNoteIds ==
    /\ \A i, j \in 1..Len(hist.saved) : i < j => hist.saved[i] < hist.saved[j]
    /\ {r.id : r \in {x \in db.notes : x.note_type = "text"}}
          = {hist.saved[i] : i \in 1..Len(hist.saved)} \ hist.deleted

\* Two save_note calls have committed; a note was deleted in between.
C4_Witness ==
    /\ Len(hist.saved) = 2
    /\ hist.saved[1] \in hist.deleted
    /\ hist.saved[2] \in Ids(db.notes)

\* C5: _dispatch never propagates an exception: whatever the function name
\* and the arguments value (missing, None, not a dict) it returns a string,
\* and when the store function it called raised, the string is the
\* localized error message carrying the exception's text.
C5_DispatchNeverRaises ==
    /\ outcome.exc = NoExc
    /\ outcome.store # NoExc =>
          outcome.ret =
              <<IF lang = "it" THEN "Errore: " ELSE "Error: ", outcome.store>>

C5_Witness ==
    /\ served = 2
    /\ call.function = JStr(<<"save_note">>)
    /\ call.arguments.t = "map"
    /\ call.arguments.m["content"] = JNull
    /\ outcome.store = "IntegrityError"
    /\ outcome.ret = <<"Errore: ", "IntegrityError">>

\* C9: a call whose name is none of the eight catalogue actions returns the
\* localized unknown-command message and changes no table of the store.
C9_UnknownCommand ==
    [][(served' # served
        /\ call'.function \notin
             {JStr(<<"save_note">>), JStr(<<"save_list">>),
              JStr(<<"add_to_list">>), JStr(<<"create_appointment">>),
              JStr(<<"set_reminder">>), JStr(<<"list_notes">>),
              JStr(<<"list_appointments">>), JStr(<<"list_reminders">>)})
       => /\ db' = db
          /\ outcome'.exc = NoExc
          /\ outcome'.ret =
               <<IF lang = "it" THEN "Comando sconosciuto: "
                                ELSE "Unknown command: ">>
               \o PyStr(call'.function)]_vars

C9_Witness ==
    /\ served = 2
    /\ db.notes # {}
    /\ call.function = JStr(<<"delete_note">>)
    /\ call.arguments.t = "null"
    /\ outcome.ret = <<"Unknown command: ", "delete_note">>

\* C10: _dispatch returns __show_notes__ / __show_appointments__ /
\* __show_reminders__ exactly for the names list_notes / list_appointments /
\* list_reminders; those calls change nothing in the store, and no other
\* call returns a string equal to a sentinel.
C10_Sentinels ==
    [][served' # served
       => /\ (outcome'.exc = NoExc /\ outcome'.ret = <<"__show_notes__">>)
                <=> call'.function = JStr(<<"list_notes">>)
          /\ (outcome'.exc = NoExc /\ outcome'.ret = <<"__show_appointments__">>)
                <=> call'.function = JStr(<<"list_appointments">>)
          /\ (outcome'.exc = NoExc /\ outcome'.ret = <<"__show_reminders__">>)
                <=> call'.function = JStr(<<"list_reminders">>)
          /\ call'.function \in {JStr(<<"list_notes">>),
                                 JStr(<<"list_appointments">>),
                                 JStr(<<"list_reminders">>)} => db' = db]_vars

C10_Witness ==
    /\ served = 2
    /\ db.appts # {}
    /\ call.function = JStr(<<"list_appointments">>)
    /\ call.arguments.t = "str"
    /\ outcome.ret = <<"__show_appointments__">>

\* C6: _call_ollama never raises to its caller, and on a network failure, a
\* timeout, a non-success status or a malformed response it returns None:
\* whatever it returns is None or a call, an object with a "function".
C6_ResolverNeverRaises ==
    /\ resolved.exc = NoExc
    /\ \/ resolved.val = PNull
       \/ resolved.val.t = "obj" /\ HasKey(resolved.val, <<"function">>)

\* C11: _dispatch of add_to_list, when no note of type list has a title
\* containing the requested list_title (both trimmed and lower-cased, a
\* missing list_title being ""), ends at the find step: it returns the
\* localized list_not_found message (unless the store call itself failed)
\* and the store is unchanged.
C11_ListNotFound ==
    [][LET args == ArgumentsOf(call')
           title == Get(args, "list_title", JStr(<<>>))
       IN  (/\ dpc = "idle"
            /\ call' # call
            /\ call'.function = JStr(<<"add_to_list">>)
            /\ args.t = "map"
            /\ title.t = "str"
            /\ \A r \in db.notes :
                  r.note_type = "list"
                     => ~Contains(Lower(Strip(r.title)), Lower(Strip(title.s))))
           => /\ dpc' = "done"
              /\ db' = db
              /\ outcome'.store = NoExc
                    => /\ outcome'.exc = NoExc
                       /\ outcome'.ret =
                            <<IF lang = "it" THEN "Lista '" ELSE "List '">>
                            \o title.s
                            \o <<IF lang = "it" THEN "' non trovata"
                                                ELSE "' not found">>]_vars

C11_Witness ==
    /\ dpc = "done"
    /\ \E r \in db.notes : r.note_type = "list" /\ r.title = <<"S">>
    /\ call.function = JStr(<<"add_to_list">>)
    /\ Get(ArgumentsOf(call), "list_title", JStr(<<>>)) = JStr(<<"z">>)
    /\ outcome.ret = <<"List '", "z", "' not found">>

\* C12: when _call_ollama returned None, process returns the localized
\* not_understood message, no arm of _dispatch runs (no call is served) and
\* the store is unchanged.
C12_NotUnderstood ==
    [][(rpc = "returned" /\ rpc' = "idle"
        /\ resolved.exc = NoExc /\ resolved.val = PNull)
       => /\ outcome'.exc = NoExc
          /\ outcome'.ret =
               <<IF lang = "it" THEN "Non ho capito il comando"
                                ELSE "I didn't understand the command">>
          /\ served' = served
          /\ call' = NoFc
          /\ db' = db]_vars

C12_Witness ==
    /\ dpc = "done"
    /\ served = 1
    /\ db.notes # {}
    /\ call = NoFc
    /\ lang = "it"
    /\ outcome.ret = <<"Non ho capito il comando">>

\* C13: check_item(note_id, text), on any store and for any id and text,
\* returns False and changes nothing when the id does not exist, the note
\* is not a list or no entry's trimmed, lower-cased item equals the
\* trimmed, lower-cased text; otherwise it returns True and flips the
\* checked flag of the first such entry and of no other entry (later
\* equal entries included), leaves every other note alone, and a second
\* call with the same arguments gives back the original entries.
C13_CheckItem ==
    \A id \in 1..(MaxNotes + 1) :
    \A text \in {<<"s", " ">>, <<"\"">>, <<"z">>} :
        LET r == check_item(db, id, text, now)
            isList == \E n \in db.notes : n.id = id /\ n.note_type = "list"
            old == CHOOSE n \in db.notes : n.id = id
            new == CHOOSE n \in r.db.notes : n.id = id
            es == Loads(old.content)
            fs == Loads(new.content)
            Eq(i) == Lower(Strip(es[i].item)) = Lower(Strip(text))
            again == check_item(r.db, id, text, now)
        IN  IF ~isList \/ ~\E i \in 1..Len(es) : Eq(i)
            THEN r.val = FALSE /\ r.exc = NoExc /\ r.db = db
            ELSE /\ r.val = TRUE
                 /\ r.exc = NoExc
                 /\ {n \in r.db.notes : n.id # id} = {n \in db.notes : n.id # id}
                 /\ Cardinality(r.db.notes) = Cardinality(db.notes)
                 /\ new.title = old.title /\ new.note_type = "list"
                 /\ Len(fs) = Len(es)
                 /\ \A i \in 1..Len(es) :
                       /\ fs[i].item = es[i].item
                       /\ fs[i].checked # es[i].checked
                             <=> (Eq(i) /\ \A j \in 1..(i - 1) : ~Eq(j))
                 /\ again.val = TRUE
                 /\ Loads((CHOOSE n \in again.db.notes : n.id = id).content) = es

C13_Witness ==
    \E n \in db.notes :
        /\ n.note_type = "list"
        /\ TimeOf(n.updated_at) > TimeOf(n.created_at)
        /\ LET es == Loads(n.content)
           IN  /\ Len(es) = 2
               /\ es[1].item = <<"S">> /\ es[1].checked
               /\ es[2].item = <<" ", "s">> /\ ~es[2].checked

\* C14: find_list_by_title(title), on any store, returns None exactly when
\* no note of type list has a title that contains, case-insensitively, the
\* trimmed query; otherwise it returns a note of type list whose title
\* contains it and whose updated_at is the greatest among those.
C14_FindList ==
    \A q \in {<<>>, <<"s", " ">>, <<" ", "S">>, <<"z">>, <<"z", "s">>} :
        LET res == find_list_by_title(db, JStr(q))
            hits == {n \in db.notes :
                        /\ n.note_type = "list"
                        /\ Contains(Lower(n.title), Lower(Strip(q)))}
        IN  /\ res # {}
            /\ hits = {} => res = {NoRow}
            /\ hits # {} =>
                  \A x \in res :
                     /\ x \in hits
                     /\ \A h \in hits :
                           TimeOf(h.updated_at) <= TimeOf(x.updated_at)

C14_Witness ==
    /\ \E a, b \in db.notes :
          /\ a.note_type = "list" /\ a.title = <<"S">>
          /\ b.note_type = "list" /\ b.title = <<"s", "z">>
          /\ TimeOf(a.updated_at) > TimeOf(b.updated_at)
          /\ a.id < b.id
          /\ find_list_by_title(db, JStr(<<"s", " ">>)) = {a}
          /\ find_list_by_title(db, JStr(<<"z">>)) = {b}
    /\ find_list_by_title(db, JStr(<<"z", "s">>)) = {NoRow}

\* C15: add_to_list(note_id, items), on any store, returns False and
\* changes nothing when the id does not exist or names a text note;
\* otherwise it returns True, the list's entries become the old entries,
\* in their order and with their flags, followed by one unchecked entry
\* per item in the order given, its updated_at becomes the current time,
\* and nothing else changes.
C15_AddToList ==
    \A id \in 1..(MaxNotes + 1) :
    \A items \in {<<>>, << <<"x">> >>, << <<" ", "s">>, <<"S">> >>} :
        LET r == add_to_list(db, id, JList(items), now)
            isList == \E n \in db.notes : n.id = id /\ n.note_type = "list"
            old == CHOOSE n \in db.notes : n.id = id
            new == CHOOSE n \in r.db.notes : n.id = id
        IN  IF ~isList
            THEN r.val = FALSE /\ r.exc = NoExc /\ r.db = db
            ELSE /\ r.val = TRUE
                 /\ r.exc = NoExc
                 /\ {n \in r.db.notes : n.id # id} = {n \in db.notes : n.id # id}
                 /\ Cardinality(r.db.notes) = Cardinality(db.notes)
                 /\ Loads(new.content) =
                       Loads(old.content)
                       \o [i \in 1..Len(items) |->
                             [item |-> items[i], checked |-> FALSE]]
                 /\ IsIso(new.updated_at) /\ TimeOf(new.updated_at) = now
                 /\ new = [old EXCEPT !.content = new.content,
                                      !.updated_at = new.updated_at]

C15_Witness ==
    \E n \in db.notes :
        /\ n.note_type = "list"
        /\ TimeOf(n.created_at) = 0
        /\ TimeOf(n.updated_at) = 1
        /\ Loads(n.content) =
              <<[item |-> <<" ", "s">>, checked |-> TRUE],
                [item |-> <<" ", "s">>, checked |-> FALSE],
                [item |-> <<"\"">>, checked |-> FALSE]>>

\* C16: after save_list(title, items), on any store, every value
\* get_all_notes can return holds exactly one note with the returned id;
\* the id is new, the note's type is list, its title the one given, and
\* its content deserializes to one {item, checked: false} entry per input
\* item, in the input order.
C16_SaveListRoundTrip ==
    \A title \in {<<"S">>} :
    \A items \in {<< <<"x">>, <<" ", "s">> >>,
                  << <<"S">>, <<"\\", "\"">>, <<"S">> >>} :
        LET r == save_list(db, JStr(title), JList(items), JStr(<<"general">>),
                           now)
            all == get_all_notes(r.db)
        IN  /\ r.exc = NoExc
            /\ r.val \notin Ids(db.notes)
            /\ all # {}
            /\ \A f \in all :
                  /\ Len(f) = Cardinality(db.notes) + 1
                  /\ \E i \in 1..Len(f) :
                        /\ f[i].id = r.val
                        /\ \A j \in 1..Len(f) : f[j].id = r.val => j = i
                        /\ f[i].note_type = "list"
                        /\ f[i].title = title
                        /\ Loads(f[i].content) =
                              [k \in 1..Len(items) |->
                                 [item |-> items[k], checked |-> FALSE]]

C16_Witness ==
    /\ Cardinality(db.notes) = 2
    /\ \A f \in get_all_notes(db) :
          /\ f[1].id = 2
          /\ f[1].note_type = "list"
          /\ Loads(f[1].content) =
                <<[item |-> <<"S">>, checked |-> FALSE],
                  [item |-> <<" ", "s">>, checked |-> FALSE]>>
          /\ f[2].note_type = "text"

\* C17: on an initialised store, get_upcoming_appointments(within_minutes)
\* returns, for every window, exactly the appointments with notified = 0
\* whose dt is not before the current time and not after the current time
\* plus the window, each once, in ascending dt order.
C17_UpcomingWindow ==
    (\A r \in db.appts : "notified" \in DOMAIN r)
    => \A w \in 0..(LeadTicks + 1) :
          LET res == get_upcoming_appointments(db, w, now)
              want == {r \in db.appts :
                          /\ r.notified = 0
                          /\ now <= TimeOf(r.dt)
                          /\ TimeOf(r.dt) <= now + w}
          IN  /\ res # {}
              /\ \A f \in res :
                    /\ Len(f) = Cardinality(want)
                    /\ {f[i] : i \in 1..Len(f)} = want
                    /\ \A i \in 1..Len(f) : \A j \in (i + 1)..Len(f) :
                          TimeOf(f[i].dt) <= TimeOf(f[j].dt)

C17_Witness ==
    /\ now = 1
    /\ \A r \in db.appts : "notified" \in DOMAIN r
    /\ \E a, c \in db.appts :
          /\ a.notified = 1 /\ TimeOf(a.dt) = 1
          /\ c.notified = 0 /\ TimeOf(c.dt) = 2
          /\ get_upcoming_appointments(db, LeadTicks, now) = {<<c>>}
          /\ get_upcoming_appointments(db, 0, now) = {<<>>}

\* C19: once stop() has set the event, the loop thread exits, also from a
\* wait whose period never runs out; a sweep begins only on a loop test
\* that found the event clear, and a loop that has exited stays exited.
C19_StopExits ==
    /\ stopEv ~> spc = "exited"
    /\ [][/\ (spc # "rem_fetch" /\ spc' = "rem_fetch") => ~stopEv
          /\ spc = "exited" => spc' = "exited"
          /\ stopEv => stopEv']_vars

C19_Witness ==
    /\ stopEv
    /\ spc = "exited"
    /\ now = 0
    /\ marked # {}

\* C18: init() on a store that holds data raises nothing and leaves every
\* row of notes, reminders and settings, and every counter, as it was; an
\* appointment row is unchanged too, except that a row of a table without
\* the notified column gets notified = 0.
C18_InitIdempotent ==
    LET r == init(db)
    IN  /\ r.exc = NoExc
        /\ r.db.notes = db.notes
        /\ r.db.rems = db.rems
        /\ r.db.settings = db.settings
        /\ <<r.db.noteSeq, r.db.apptSeq, r.db.remSeq>>
              = <<db.noteSeq, db.apptSeq, db.remSeq>>
        /\ Cardinality(r.db.appts) = Cardinality(db.appts)
        /\ \A a \in db.appts :
              \E b \in r.db.appts :
                 /\ \A k \in DOMAIN a : b[k] = a[k]
                 /\ DOMAIN b = DOMAIN a \cup {"notified"}
                 /\ "notified" \notin DOMAIN a => b.notified = 0
        /\ init(r.db).db = r.db

C18_Witness ==
    /\ db.notes # {}
    /\ db.rems # {}
    /\ db.settings # {}
    /\ \E a \in db.appts :
          a = [id |-> 1, title |-> <<"a">>, dt |-> Iso(1),
               description |-> <<>>, notified |-> 0, created_at |-> Iso(0)]

\* C20: in hold mode the listener calls the press callback of a hotkey on
\* the first press event of a physical hold and on no other event, and its
\* release callback on the release that ends a hold whose press it saw and
\* on no other event; so for each hotkey the callbacks alternate, starting
\* with press.
C20_HoldMode ==
    /\ [][holdMode =>
            \A k \in {"dictation", "assistant"} :
               /\ fired' = Append(fired, <<k, "press">>)
                     <=> (~keyDown[k] /\ keyDown'[k])
               /\ fired' = Append(fired, <<k, "release">>)
                     <=> (keyDown[k] /\ ~keyDown'[k])
               /\ fired' # fired =>
                     \E j \in {"dictation", "assistant"} :
                        keyDown'[j] # keyDown[j]]_vars
    /\ [](holdMode =>
            \A k \in {"dictation", "assistant"} :
               LET n(cb) == Cardinality({i \in 1..Len(fired) :
                                           fired[i] = <<k, cb>>})
               IN  /\ n("release") <= n("press")
                   /\ n("press") <= n("release") + 1
                   /\ keyDown[k] <=> n("press") = n("release") + 1)

C20_Witness ==
    /\ holdMode
    /\ keyDown["dictation"]
    /\ ~keyDown["assistant"]
    /\ fired = << <<"dictation", "press">>, <<"assistant", "press">>,
                  <<"assistant", "release">>, <<"dictation", "release">> >>
          \/ fired = << <<"dictation", "press">>, <<"dictation", "release">>,
                        <<"dictation", "press">> >>

\* C21: in toggle mode, for each hotkey, a distinct press (the key goes
\* down) fires the start callback when the hotkey is not recording and the
\* stop callback when it is, a key release fires no callback, and no start
\* or stop of a hotkey is fired by a press event while its key stays held.
C21_ToggleMode ==
    [][~holdMode =>
         \A k \in {"dictation", "assistant"} :
            /\ (~keyDown[k] /\ keyDown'[k]) =>
                  fired' = Append(fired, <<k, IF recording[k]
                                              THEN "release" ELSE "press">>)
            /\ (keyDown[k] /\ ~keyDown'[k]) => fired' = fired
            /\ (keyDown[k] /\ keyDown'[k]) =>
                  fired' # Append(fired, <<k, "press">>)]_vars

\* C22: inject with a non-empty text goes from its clipboard write either
\* to the paste keystroke or to the recovery file; the keystroke is sent
\* with the text on the clipboard, and on the other path the text is
\* appended to the recovery file.
C22_TextNotLost ==
    [][/\ (ipc = "set" /\ ipc' # "set") =>
             \/ ipc' = "paste" /\ recoveryFile' = recoveryFile
             \/ /\ ipc' = "restore"
                /\ recoveryFile' =
                      Append(recoveryFile, [at |-> now, text |-> itext])
       /\ (ipc = "paste" /\ ipc' # "paste") =>
             keyboard' = Append(keyboard, itext)]_vars

\* C23: when the add_to_list arm returns from db.add_to_list, it returns
\* the list-not-found message if the list found earlier is no longer in the
\* store, and the added-to-list confirmation only if the items were
\* appended to that list.
C23_AddReportsAbsence ==
    [][(dpc = "add" /\ dpc' = "done") =>
          LET args == ArgumentsOf(call)
              confirmation ==
                  get(lang, "added_to_list", "{title}" :> found.title)
              notFound ==
                  get(lang, "list_not_found",
                      "{title}" :> PyStr(Get(args, "list_title", JStr(<<>>))))
          IN  /\ (found.id \notin Ids(db.notes) /\ outcome'.store = NoExc)
                 => outcome'.ret = notFound
              /\ outcome'.ret = confirmation =>
                    /\ found.id \in Ids(db.notes)
                    /\ found.id \in Ids(db'.notes)
                    /\ Loads(Row(db'.notes, found.id).content) =
                          Loads(Row(db.notes, found.id).content)
                             \o Unchecked(ItemsOf(Get(args, "items",
                                                      JList(<<>>))))]_vars

\* C24: within a phase of a sweep, no step takes a fetched item other than
\* the one being notified or marked off the phase's work: a failure while
\* one item is delivered or marked leaves every other fetched item to be
\* notified and marked in the same sweep.
C24_OthersNotBlocked ==
    [][(spc \in {"rem_toast", "rem_mark", "appt_toast", "appt_mark"}) =>
          LET others == IF spc \in {"rem_toast", "appt_toast"}
                        THEN Tail(pending) ELSE pending
          IN  \A i \in 1..Len(others) :
                 \/ item' = others[i]
                 \/ \E j \in 1..Len(pending') : others[i] = pending'[j]]_vars

\* C25: however the reminder phase of a sweep ends, by an exception too, the
\* appointment phase of the same sweep comes next; however that one ends,
\* the wait comes next, and after the wait the loop test; the thread exits
\* at the loop test only, and only when the stop event is set.
C25_PhasesIsolated ==
    [][LET Rem == {"rem_fetch", "rem_toast", "rem_mark"}
           Appt == {"appt_fetch", "appt_toast", "appt_mark"}
       IN  /\ (spc \in Rem /\ spc' \notin Rem) => spc' = "appt_fetch"
           /\ (spc \in Appt /\ spc' \notin Appt) => spc' = "wait"
           /\ (spc = "wait" /\ spc' # "wait") => spc' = "loop"
           /\ (spc = "loop" /\ spc' # "loop") =>
                 spc' = IF stopEv THEN "exited" ELSE "rem_fetch"
           /\ spc' = "exited" => spc \in {"loop", "exited"}]_vars

\* The appointment phase is at work on an appointment although a reminder
\* due since the start is still unnotified: the reminder phase raised.
C25_Witness ==
    /\ spc = "appt_mark"
    /\ item.id \in Ids(db.appts)
    /\ \E r \in db.rems : r.notified = 0 /\ r.remind_at = Iso(0)
    /\ marked = {}

\* C26: a row's notified flag goes from 0 to 1 only in the step that
\* follows the notification attempt for that row in the same sweep; and a
\* fetched row for which no attempt has been made yet is later attempted,
\* or deleted, or (the sweep having ended early) returned again by the
\* fetch of a later sweep.
C26_AtLeastOnce ==
    /\ [][/\ \A r \in db.rems : \A q \in db'.rems :
                (q.id = r.id /\ r.notified = 0 /\ q.notified = 1) =>
                   (spc = "rem_mark" /\ item.id = r.id)
          /\ \A a \in db.appts : \A q \in db'.appts :
                (q.id = a.id /\ a.notified = 0 /\ q.notified = 1) =>
                   (spc = "appt_mark" /\ item.id = a.id)]_vars
    /\ \A id \in 1..(MaxRems + 1) :
          (spc = "rem_toast" /\ \E i \in 1..Len(pending) : pending[i].id = id)
             ~> \/ spc = "rem_mark" /\ item.id = id
                \/ id \notin Ids(db.rems)
                \/ /\ spc = "rem_fetch"
                   /\ \E p \in get_pending_reminders(db, now) :
                         \E i \in 1..Len(p) : p[i].id = id
    /\ \A id \in 1..MaxAppts :
          (spc = "appt_toast" /\ \E i \in 1..Len(pending) : pending[i].id = id)
             ~> \/ spc = "appt_mark" /\ item.id = id
                \/ id \notin Ids(db.appts)
                \/ /\ spc = "appt_fetch"
                   /\ \E p \in get_upcoming_appointments(db, LeadTicks, now) :
                         \E i \in 1..Len(p) : p[i].id = id

\* C27: every row a reminder fetch returns has remind_at no later than the
\* time of the fetch, every row an appointment fetch returns has dt no later
\* than that time plus the lead; a notification is fired only for the next
\* fetched row, and only the row just notified is marked.
C27_NotEarly ==
    [][/\ (spc = "rem_fetch") =>
             \A i \in 1..Len(pending') :
                TimeOf(pending'[i].remind_at) <= now
       /\ (spc = "appt_fetch") =>
             \A i \in 1..Len(pending') :
                TimeOf(pending'[i].dt) <= now + LeadTicks
       /\ (item' # item /\ item' # NoItem) =>
             /\ spc \in {"rem_toast", "appt_toast"}
             /\ item' = Head(pending)
       /\ \A r \in db.rems : \A q \in db'.rems :
             (q.id = r.id /\ r.notified = 0 /\ q.notified = 1) =>
                (spc = "rem_mark" /\ item = r)
       /\ \A a \in db.appts : \A q \in db'.appts :
             (q.id = a.id /\ a.notified = 0 /\ q.notified = 1) =>
                (spc = "appt_mark" /\ item = a)]_vars

\* At clock 0 the reminder phase has notified the reminder due at 0 and
\* passed over the one due at 1.
C27_Witness ==
    /\ now = 0
    /\ spc = "appt_fetch"
    /\ \E r \in db.rems : r.remind_at = Iso(0) /\ r.notified = 1
    /\ \E q \in db.rems : q.remind_at = Iso(1) /\ q.notified = 0
    /\ marked # {}

\* C28: the write a call of add_to_list or check_item commits is the whole
\* function applied to the store as it is at the commit, so no write of
\* another call made since the call's read is lost and each call's entries
\* are appended in one piece after everything written before; and what a
\* get_all_notes reads is made of whole calls.
C28_NoLostUpdate ==
    /\ [][\A t \in 1..NumCallers :
             (pc[t] = "update" /\ pc'[t] = "close") =>
                db' = Statement(db, StoreCall(cur[t].op, cur[t].id, cur[t].v),
                                now).db]_vars
    /\ [](\A t \in 1..NumCallers :
             (pc[t] = "close" /\ cur[t].op = "get_all_notes") =>
                \A r \in cur[t].rows :
                   LET RECURSIVE Whole(_)
                       Whole(es) ==
                           \/ es = <<>>
                           \/ \E c \in ListCalls :
                                 LET n == Len(ItemsOf(c.v)) IN
                                 /\ c.op = "add_to_list"
                                 /\ n <= Len(es)
                                 /\ [i \in 1..n |-> es[i].item] = ItemsOf(c.v)
                                 /\ Whole(SubSeq(es, n + 1, Len(es)))
                   IN  Whole(Loads(r.content)))

\* Both threads have appended, an entry has been toggled, and a further
\* call is between its read and its write.
C28_Witness ==
    /\ \E t \in 1..NumCallers : pc[t] = "update"
    /\ \E r \in db.notes :
          LET es == Loads(r.content) IN
          /\ [i \in 1..Len(es) |-> es[i].item] = << <<"l">>, <<"s">>, <<"t">> >>
          /\ es[2].checked

\* C29: every timestamp in the store (dt of an appointment, remind_at of a
\* reminder, every created_at and updated_at) has the form
\* isoformat(timespec="seconds") gives, also when the row was written by a
\* dispatched call.
C29_TimestampsIso ==
    /\ \A r \in db.notes : IsIso(r.created_at) /\ IsIso(r.updated_at)
    /\ \A a \in db.appts : IsIso(a.dt) /\ IsIso(a.created_at)
    /\ \A r \in db.rems : IsIso(r.remind_at) /\ IsIso(r.created_at)

C31_TypeAndShape ==
    [][/\ \A q \in db'.notes :
            /\ q.note_type \in {"text", "list"}
            /\ (q.note_type = "list") => Dumps(Loads(q.content)) = q.content
       /\ \A r \in db.notes : \A q \in db'.notes :
            (q.id = r.id) =>
               /\ q.note_type = r.note_type
               /\ (r.note_type = "text") => q = r]_vars

\* A text note whose content reads as JSON stands untouched beside a list
\* note created after it that has been added to and checked.
C31_Witness ==
    \E r \in db.notes : \E q \in db.notes :
       /\ r.note_type = "text" /\ r.content = <<"[", "]">>
       /\ r.updated_at = r.created_at
       /\ q.note_type = "list" /\ q.id > r.id
       /\ q.updated_at # q.created_at
       /\ Len(Loads(q.content)) >= 3
       /\ \E i \in 1..Len(Loads(q.content)) : Loads(q.content)[i].checked

\* C32: when the body is an object whose message is an object, tool_calls
\* is missing, null or a list whose first entry has a function with a
\* name, and content is missing or a string, _call_ollama returns: the
\* name and the arguments of the first tool call if the list is not empty,
\* whatever the content; otherwise the value the trimmed content parses to
\* if that is a JSON object with a "function" key; otherwise None.
C32_ParseOrder ==
    [][LET msg == GetOr(data, <<"message">>, PObj(<<>>))
           tool_calls == GetOr(msg, <<"tool_calls">>, PNull)
           content == GetOr(msg, <<"content">>, PStr(<<>>))
           tc == tool_calls.l[1]
           f == Item(tc, <<"function">>)
           parsed == json_loads(Strip(content.s))
       IN  (/\ rpc \in {"tool_calls", "content"} /\ rpc' = "returned"
            /\ data.t = "obj" /\ msg.t = "obj"
            /\ content.t = "str"
            /\ tool_calls.t \in {"null", "list"}
            /\ (tool_calls.t = "list" /\ tool_calls.l # <<>>)
                  => /\ tc.t = "obj" /\ HasKey(tc, <<"function">>)
                     /\ f.t = "obj" /\ HasKey(f, <<"name">>))
           => /\ resolved'.exc = NoExc
              /\ resolved'.val =
                   IF tool_calls.t = "list" /\ tool_calls.l # <<>>
                   THEN PObj(<<Member(<<"function">>, Item(f, <<"name">>)),
                               Member(<<"arguments">>,
                                      IF HasKey(f, <<"arguments">>)
                                      THEN Item(f, <<"arguments">>)
                                      ELSE PObj(<<>>))>>)
                   ELSE IF /\ parsed.ok
                           /\ parsed.v.t = "obj"
                           /\ HasKey(parsed.v, <<"function">>)
                        THEN parsed.v
                        ELSE PNull]_vars

C34_Alternate ==
    \A k \in {"dictation", "assistant"} :
       LET IsK(e) == e[1] = k
           own == SelectSeq(fired, IsK)
       IN  \A i \in 1..Len(own) :
              own[i][2] = IF i % 2 = 1 THEN "press" ELSE "release"

\* C35: in toggle mode the release callback of a hotkey has been called at
\* most once for each call of its press callback, however the timer
\* thread's force_stop_* and the listener thread's key events interleave.
C35_StopOnce ==
    ~holdMode =>
       \A k \in {"dictation", "assistant"} :
          LET n(cb) == Cardinality({i \in 1..Len(fired) : fired[i] = <<k, cb>>})
          IN  n("release") <= n("press")

\* C36: every audio item on the dictation queue was captured in a Recorder
\* session that the dictation hotkey opened, and every item on the
\* assistant queue in a session that the assistant hotkey opened.
C36_Routing ==
    \A k \in {"dictation", "assistant"} :
       \A i \in 1..Len(queue[k]) : queue[k][i].by \in {k, "_STOP"}

\* C37: _dispatch of add_to_list whose arguments have no list_title, or one
\* that is empty once trimmed, leaves every note as it was and returns the
\* localized list_not_found message.
C37_EmptyTitle ==
    [][LET args == ArgumentsOf(call')
           title == Get(args, "list_title", JStr(<<>>))
       IN  (/\ dpc \in {"idle", "add"}
            /\ call'.function = JStr(<<"add_to_list">>)
            /\ args.t = "map"
            /\ title.t = "str"
            /\ Strip(title.s) = <<>>)
           => /\ dpc' = "done"
              /\ db'.notes = db.notes
              /\ outcome'.store = NoExc
                    => /\ outcome'.exc = NoExc
                       /\ outcome'.ret = get(lang, "list_not_found",
                                             "{title}" :> title.s)]_vars

\* C38: an insert into reminders or appointments never returns an id that
\* is in the table, that the running sweep holds, or that a sweep has
\* marked; and the mark step of a sweep sets notified on the very row the
\* sweep fetched if it is still stored and changes nothing otherwise.
C38_IdsNotReused ==
    [][LET Held(phase) ==
               IF spc \in phase
               THEN {pending[i].id : i \in 1..Len(pending)} \cup {item.id}
               ELSE {}
           Marked(table) == {x[2] : x \in {y \in marked : y[1] = table}}
           Mark(rows) ==
               {IF r = item THEN [r EXCEPT !.notified = 1] ELSE r : r \in rows}
       IN  /\ \A r \in db'.rems :
                r.id \notin Ids(db.rems) =>
                   r.id \notin Marked("rem") \cup Held({"rem_toast", "rem_mark"})
           /\ \A a \in db'.appts :
                a.id \notin Ids(db.appts) =>
                   a.id \notin Marked("appt")
                                  \cup Held({"appt_toast", "appt_mark"})
           /\ (spc = "rem_mark" /\ marked' # marked)
                 => db' = [db EXCEPT !.rems = Mark(@)]
           /\ (spc = "appt_mark" /\ marked' # marked)
                 => db' = [db EXCEPT !.appts = Mark(@)]]_vars

\* The sweep has marked reminder 1 after it was deleted; the reminder
\* created since has the next id and is untouched.
C38_Witness ==
    /\ <<"rem", 1>> \in marked
    /\ \E r \in db.rems : r.id = 2 /\ r.notified = 0
    /\ db.rems = {r \in db.rems : r.id = 2}
    /\ spc \notin {"rem_toast", "rem_mark"}

\* C39: each worker has handled the items of its queue in the order they
\* were put, none skipped, whether or not handling one raised; and a worker
\* that runs no more has handled exactly the items put before _STOP, none
\* put after it.
C39_Workers ==
    \A k \in {"dictation", "assistant"} :
       LET w == worker[k]
           stops == {i \in 1..Len(queue[k]) : queue[k][i] = _STOP}
           before == IF stops = {} THEN Len(queue[k])
                     ELSE (CHOOSE i \in stops : \A j \in stops : i <= j) - 1
       IN  /\ Len(w.handled) <= before
           /\ \A i \in 1..Len(w.handled) : w.handled[i].item = queue[k][i]
           /\ w.pc = "get" => Len(w.handled) = w.n
           /\ w.pc = "work" => Len(w.handled) = w.n - 1
           /\ w.pc \notin {"get", "work"} => Len(w.handled) = before

====
